---- MODULE Spec2Model ----
(***************************************************************************)
(* Sewer-network flow tracing: connectivity graph construction (load),     *)
(* successor resolution (chooseNextPipe...) and path tracing               *)
(* (buildPipePlanFromObjectId) of the Track-My-Poo builds.                 *)
(*                                                                         *)
(* Conventions of the model                                                *)
(*  - a coordinate is a pair <<x, y>> of integers: metres east and north   *)
(*    in a local plane (the code works on lat/lng and projects to metres); *)
(*  - invert levels are integers in centimetres, lookahead scores are      *)
(*    kept times 10, so that every number of the code is an integer;       *)
(*  - JavaScript null / undefined is NULL for numbers and ids and NoPoint  *)
(*    for a coordinate; a missing SEWER_NAME is the empty string.          *)
(***************************************************************************)
EXTENDS Integers, Sequences, FiniteSets, TLC

VARIABLES
    byObjectId,     \* Map OBJECTID -> feature (geometry + property bag)
    variant,        \* which build runs: "dironly", "lookahead", "dfs", "load", "flush";
                    \* "fallback" for a call of chooseNextPipeLowestDownIL alone,
                    \* "bridge" for load of the gap-bridging build,
                    \* "records" for buildPipeRecords of the Manning build
    pc,             \* position of the running call: "walking", "searching", "done";
                    \* pass of load: "pass1", "cluster", "keys", "pass2", "loaded"
    startObjectId,  \* argument of buildPipePlanFromObjectId
    startPoint,     \* argument of buildPipePlanFromObjectId
    maxHops,        \* argument maxHops / maxSteps
    currentId,      \* greedy tracer: let currentId
    prevId,         \* greedy tracer: let prevId
    first,          \* greedy tracer: let first
    visited,        \* greedy tracer: const visited = new Set()
    visitedCells,   \* const visitedCells = new Set()
    plan,           \* const plan = []
    hop,            \* loop counter of the greedy walk / iterations of the DFS loop
    walk,           \* history: ids whose coordinates were emitted, in order
    frames,         \* DFS tracer: const frames = [] ({id, prevId, idx, ordered})
    path,           \* DFS tracer: const path = []
    inPath,         \* DFS tracer: const inPath = new Set()
    found,          \* DFS tracer: let found
    targetPipeIds,  \* DFS tracer: the ids of TARGET_PIPE_IDS, as labelled in the network
    features,       \* load: the features of the GeoJSON file, with their property bags
    endpointRecords,\* load: const endpointRecords = []
    uf,             \* load: const uf = new UF(endpoints.length)
    nodeIndex,      \* load: const nodeIndex = new Map()
    cursor,         \* load: position of the running loop over features or records
    flowStartsByCell, \* load of the gap-bridging build: const flowStartsByCell = new Map()
    pipes,          \* buildPipeRecords of the Manning build: const pipes = []
    phase,          \* which call of a session runs: "first", "other", "again"
    firstCall,      \* history: entry and returned plan of the session's first call
    second,         \* the locals of a second call of the tracer on the same network
    thePoint,       \* App: the entry `pt` of the state array `points`
    pipeReady,      \* App: pipeData.geojson and pipeData.byObjectId are set (not null)
    speed10x,       \* App: the state speed10x
    caller,         \* which handler awaits the running tracer call, "none" when idle
    anim            \* flush animation of the Manning build: animRef.current, with the
                    \* velocity of its last frame (debug.v)

tracerVars == <<pc, startObjectId, startPoint, maxHops, currentId, prevId, first,
                visited, visitedCells, plan, hop, walk>>

dfsVars == <<frames, path, inPath, found, targetPipeIds>>

loadVars == <<features, endpointRecords, uf, nodeIndex, cursor, flowStartsByCell, pipes>>

entityVars == <<thePoint, pipeReady, speed10x, caller, anim>>

callVars == <<phase, firstCall, second, entityVars>>

vars == <<byObjectId, variant, tracerVars, dfsVars, loadVars, callVars>>

----------------------------------------------------------------------------
(* Bounds of the model *)

NumSegs == 3
SmallCap == 2

----------------------------------------------------------------------------
(* Values *)

NULL == 0
NoPoint == <<>>

Ids == 1..NumSegs
UnknownId == NumSegs + 1

Min(a, b) == IF a < b THEN a ELSE b
Max(a, b) == IF a > b THEN a ELSE b
Abs(a) == IF a < 0 THEN 0 - a ELSE a

Range(s) == {s[i] : i \in 1..Len(s)}

\* Array.prototype.filter
Filter(s, Keep(_)) == SelectSeq(s, Keep)

\* Array.prototype.slice().reverse()
Reverse(s) == [i \in 1..Len(s) |-> s[Len(s) + 1 - i]]

\* Set -> ascending sequence (ids.slice().sort((x, y) => x - y))
RECURSIVE SortAsc(_)
SortAsc(S) ==
    IF S = {} THEN <<>>
    ELSE LET m == CHOOSE x \in S : \A y \in S : x <= y
         IN <<m>> \o SortAsc(S \ {m})

----------------------------------------------------------------------------
(* Geometry helpers *)

\* metersBetween(a, b)^2 on plane coordinates
Dist2(a, b) == (a[1] - b[1]) * (a[1] - b[1]) + (a[2] - b[2]) * (a[2] - b[2])

\* metersBetween(a, b) < 0.2   <=>   25 * d^2 < 1
CloserThan20cm(a, b) == 25 * Dist2(a, b) < 1

\* Math.round(v / cellMeters) for cellMeters = 5: floor(v / 5 + 1/2)
RoundDiv5(v) == (2 * v + 5) \div 10

\* gridKey(pt, 5)
gridKey(pt) == <<RoundDiv5(pt[1]), RoundDiv5(pt[2])>>

\* bearingDeg(a, b): (atan2(east, north) in degrees + 360) % 360, for the
\* compass directions (the model's polylines run along them); atan2(0, 0) = 0
bearingDeg(a, b) ==
    LET e == b[1] - a[1]
        n == b[2] - a[2]
    IN CASE e = 0 /\ n >= 0 -> 0
         [] e = 0 /\ n < 0 -> 180
         [] n = 0 /\ e > 0 -> 90
         [] n = 0 /\ e < 0 -> 270
         [] e = n /\ e > 0 -> 45
         [] e = 0 - n /\ e > 0 -> 135
         [] e = n /\ e < 0 -> 225
         [] e = 0 - n /\ e < 0 -> 315

angleDiffDeg(a, b) ==
    LET d == Abs(a - b) % 360
    IN IF d > 180 THEN 360 - d ELSE d

----------------------------------------------------------------------------
(* Features *)

Has(g, id) == id \in DOMAIN g

\* flattenFeatureCoords(ft): [] for a missing feature
flattenFeatureCoords(g, id) == IF Has(g, id) THEN g[id].coords ELSE <<>>

\* props._nextObjectIds, [] when absent
NextObjectIds(g, id) == IF Has(g, id) THEN g[id].next ELSE <<>>

\* orderedCoordsForPipe(ft), DIR-only build
orderedCoordsForPipe(g, id) ==
    LET coords == flattenFeatureCoords(g, id)
    IN IF Len(coords) < 2 THEN <<>>
       ELSE IF g[id].dir = "d_to_u" THEN Reverse(coords) ELSE coords

----------------------------------------------------------------------------
(* Successor resolution, DIR-only build *)

Infinity == 1000000

\* the loop if a later candidate won on an equal difference
RECURSIVE BearingLoopLastWins(_, _, _, _, _, _)
BearingLoopLastWins(ids, i, g, currBrng, bestId, bestDelta) ==
    IF i > Len(ids) THEN bestId
    ELSE LET ord == orderedCoordsForPipe(g, ids[i])
         IN IF Len(ord) < 2
            THEN BearingLoopLastWins(ids, i + 1, g, currBrng, bestId, bestDelta)
            ELSE LET delta == angleDiffDeg(currBrng, bearingDeg(ord[1], ord[2]))
                 IN IF delta <= bestDelta
                    THEN BearingLoopLastWins(ids, i + 1, g, currBrng, ids[i], delta)
                    ELSE BearingLoopLastWins(ids, i + 1, g, currBrng, bestId, bestDelta)

\* the for-loop of chooseNextPipeDirOnly over ids, from index i on
RECURSIVE BearingLoop(_, _, _, _, _, _)
BearingLoop(ids, i, g, currBrng, bestId, bestDelta) ==
    IF i > Len(ids) THEN bestId
    ELSE LET ord == orderedCoordsForPipe(g, ids[i])
         IN IF Len(ord) < 2
            THEN BearingLoop(ids, i + 1, g, currBrng, bestId, bestDelta)
            ELSE LET delta == angleDiffDeg(currBrng, bearingDeg(ord[1], ord[2]))
                 IN IF delta < bestDelta
                    THEN BearingLoop(ids, i + 1, g, currBrng, ids[i], delta)
                    ELSE BearingLoop(ids, i + 1, g, currBrng, bestId, bestDelta)

\* the candidates if only the previous segment were excluded
EligibleRevisiting(nextIds, prev, vis) == Filter(nextIds, LAMBDA id : id # prev)

\* the candidates left after excluding the previous and the visited segments
EligibleDirOnly(nextIds, prev, vis) ==
    LET ids1 == Filter(nextIds, LAMBDA id : id # prev /\ id \notin vis)
    IN IF Len(ids1) > 0 THEN ids1 ELSE Filter(nextIds, LAMBDA id : id # prev)

\* chooseNextPipeByBearing of the target build: the same choice, behind two
\* more guards
chooseNextPipeByBearing(nextIds, g, currOrderedCoords, prev, vis) ==
    LET ids == EligibleDirOnly(nextIds, prev, vis)
        n == Len(currOrderedCoords)
        bestId == BearingLoop(ids, 1, g,
                              bearingDeg(currOrderedCoords[Max(1, n - 1)], currOrderedCoords[n]),
                              NULL, Infinity)
    IN IF Len(ids) = 0 THEN NULL
       ELSE IF Len(ids) = 1 THEN ids[1]
       ELSE IF n < 2 THEN SortAsc(Range(ids))[1]
       ELSE IF bestId # NULL THEN bestId
       ELSE SortAsc(Range(ids))[1]

\* the resolution without its last resort: no successor when no candidate has
\* a bearing
chooseNextPipeWithBearing(nextIds, g, currOrderedCoords, prev, vis) ==
    LET ids == EligibleDirOnly(nextIds, prev, vis)
        n == Len(currOrderedCoords)
    IN IF Len(ids) = 0 THEN NULL
       ELSE BearingLoop(ids, 1, g,
                        bearingDeg(currOrderedCoords[Max(1, n - 1)], currOrderedCoords[n]),
                        NULL, Infinity)

\* the resolution if a dead end snapped to the lowest segment not yet visited
chooseNextPipeSnapping(nextIds, g, currOrderedCoords, prev, vis) ==
    LET ids == EligibleDirOnly(nextIds, prev, vis)
    IN IF Len(ids) > 0 THEN ids[1]
       ELSE IF DOMAIN g \subseteq vis THEN NULL
       ELSE SortAsc(DOMAIN g \ vis)[1]

chooseNextPipeDirOnly(nextIds, g, currOrderedCoords, prev, vis) ==
    LET ids == EligibleDirOnly(nextIds, prev, vis)
        n == Len(currOrderedCoords)
        a == currOrderedCoords[Max(1, n - 1)]
        b == currOrderedCoords[n]
        bestId == BearingLoop(ids, 1, g, bearingDeg(a, b), NULL, Infinity)
    IN IF Len(ids) = 0 THEN NULL
       ELSE IF Len(ids) = 1 THEN ids[1]
       ELSE IF bestId # NULL THEN bestId
       ELSE SortAsc(Range(ids))[1]

----------------------------------------------------------------------------
(* Coordinate emission of the greedy tracers *)

\* the same loop with `d <= bestDist`: the last one on ties
RECURSIVE NearestLoopLastWins(_, _, _, _, _)
NearestLoopLastWins(ord, sp, i, nearestIdx, bestDist) ==
    IF i > Len(ord) THEN nearestIdx
    ELSE IF Dist2(sp, ord[i]) <= bestDist
         THEN NearestLoopLastWins(ord, sp, i + 1, i, Dist2(sp, ord[i]))
         ELSE NearestLoopLastWins(ord, sp, i + 1, nearestIdx, bestDist)

\* index of the vertex nearest to the entry point (first one on ties)
RECURSIVE NearestLoop(_, _, _, _, _)
NearestLoop(ord, sp, i, nearestIdx, bestDist) ==
    IF i > Len(ord) THEN nearestIdx
    ELSE IF Dist2(sp, ord[i]) < bestDist
         THEN NearestLoop(ord, sp, i + 1, i, Dist2(sp, ord[i]))
         ELSE NearestLoop(ord, sp, i + 1, nearestIdx, bestDist)

\* the entry index if the pipe were always followed from its first vertex
FirstIdx(ord, sp) == 1

NearestIdx(ord, sp) == NearestLoop(ord, sp, 1, 1, Infinity)

\* the push loops: from index i on, skip a point within 0.2 m of `last` (when
\* `last` is a point) and a point whose 5 m cell was emitted before
RECURSIVE EmitLoop(_, _, _, _, _)
EmitLoop(ord, i, last, cells, pl) ==
    IF i > Len(ord) THEN [plan |-> pl, cells |-> cells]
    ELSE IF last # NoPoint /\ CloserThan20cm(last, ord[i])
         THEN EmitLoop(ord, i + 1, last, cells, pl)
         ELSE IF gridKey(ord[i]) \in cells
              THEN EmitLoop(ord, i + 1, last, cells, pl)
              ELSE EmitLoop(ord, i + 1, last, cells \cup {gridKey(ord[i])},
                            Append(pl, ord[i]))

\* the body of `if (first && startPoint) ... else ...`
EmitGreedy(ord, isFirst, sp, cells, pl) ==
    IF isFirst /\ sp # NoPoint
    THEN EmitLoop(ord, NearestIdx(ord, sp), NoPoint, cells, Append(pl, sp))
    ELSE EmitLoop(ord, 1, IF Len(pl) > 0 THEN pl[Len(pl)] ELSE NoPoint, cells, pl)

----------------------------------------------------------------------------
(* Greedy tracer, DIR-only build: buildPipePlanFromObjectId *)

\* the loop without its hop cap
ContinueDirOnlyNoCap ==
    /\ currentId # NULL
    /\ currentId \notin visited
    /\ Has(byObjectId, currentId)

\* the for-loop condition and the three breaks before visited.add(currentId)
ContinueDirOnly ==
    /\ hop < maxHops
    /\ currentId # NULL
    /\ currentId \notin visited
    /\ Has(byObjectId, currentId)

\* one iteration of the for-loop that reaches visited.add(currentId)
HopDirOnly ==
    /\ variant = "dironly"
    /\ pc = "walking"
    /\ ContinueDirOnly
    /\ visited' = visited \cup {currentId}
    /\ LET ord == orderedCoordsForPipe(byObjectId, currentId)
           out == EmitGreedy(ord, first, startPoint, visitedCells, plan)
       IN IF Len(ord) < 2
          THEN /\ pc' = "done"
               /\ UNCHANGED <<currentId, prevId, first, visitedCells, plan, hop, walk>>
          ELSE /\ plan' = out.plan
               /\ visitedCells' = out.cells
               /\ first' = (first /\ startPoint = NoPoint)
               /\ walk' = Append(walk, currentId)
               /\ currentId' = chooseNextPipeDirOnly(NextObjectIds(byObjectId, currentId),
                                                     byObjectId, ord, prevId, visited')
               /\ prevId' = currentId
               /\ hop' = hop + 1
               /\ pc' = "walking"
    /\ UNCHANGED <<byObjectId, variant, startObjectId, startPoint, maxHops, dfsVars, loadVars, callVars>>

\* the loop ends: hop cap, null successor, loop closure or unknown id
StopDirOnly ==
    /\ variant = "dironly"
    /\ pc = "walking"
    /\ ~ContinueDirOnly
    /\ pc' = "done"
    /\ UNCHANGED <<byObjectId, variant, startObjectId, startPoint, maxHops, currentId,
                   prevId, first, visited, visitedCells, plan, hop, walk, dfsVars, loadVars, callVars>>

----------------------------------------------------------------------------
(* Successor resolution, lookahead build *)

\* normaliseSewerName on the names of the model: upper case, punctuation
\* stripped, white space collapsed and trimmed
normaliseSewerName(v) ==
    CASE v = "" -> ""
      [] v = "Main St." -> "MAIN ST"
      [] v = "MAIN ST" -> "MAIN ST"
      [] v = "SIDE" -> "SIDE"

\* property reads with the `ft?.properties || {}` defaults of the code
SewerName(g, id) == IF Has(g, id) THEN g[id].name ELSE ""
DownIL(g, id) == IF Has(g, id) THEN g[id].downIL ELSE NULL
PipeLength(g, id) == IF Has(g, id) THEN g[id].len ELSE NULL
DirSource(g, id) == IF Has(g, id) THEN g[id].dirSource ELSE ""
SegCand(g, id) == IF Has(g, id) THEN g[id].segCand ELSE NULL

\* first id of ids with the lowest DOWNSTREAM_IL, NULL when none has one
RECURSIVE LowestDownLoop(_, _, _, _, _)
LowestDownLoop(ids, i, g, bestId, bestDown) ==
    IF i > Len(ids) THEN bestId
    ELSE IF DownIL(g, ids[i]) # NULL /\ DownIL(g, ids[i]) < bestDown
         THEN LowestDownLoop(ids, i + 1, g, ids[i], DownIL(g, ids[i]))
         ELSE LowestDownLoop(ids, i + 1, g, bestId, bestDown)

\* first id of ids with the greatest PIPE_LENGTH, NULL when none has one
RECURSIVE LongestLoop(_, _, _, _, _)
LongestLoop(ids, i, g, bestLenId, bestLen) ==
    IF i > Len(ids) THEN bestLenId
    ELSE IF PipeLength(g, ids[i]) # NULL /\ PipeLength(g, ids[i]) > bestLen
         THEN LongestLoop(ids, i + 1, g, ids[i], PipeLength(g, ids[i]))
         ELSE LongestLoop(ids, i + 1, g, bestLenId, bestLen)

\* the candidates after the same-name restriction of chooseNextPipeLowestDownIL
SameNameCandidates(nextIds, g, cur) ==
    LET currentName == normaliseSewerName(SewerName(g, cur))
        sameName == Filter(nextIds, LAMBDA id :
                        /\ normaliseSewerName(SewerName(g, id)) # ""
                        /\ normaliseSewerName(SewerName(g, id)) = currentName)
    IN IF currentName # "" /\ Len(sameName) > 0 THEN sameName ELSE nextIds

chooseNextPipeLowestDownIL(nextIds, g, cur) ==
    LET candidateIds == SameNameCandidates(nextIds, g, cur)
        anyDirProvided == \E i \in 1..Len(candidateIds) :
                              DirSource(g, candidateIds[i]) = "DIR"
        useIL == DirSource(g, cur) # "DIR" /\ ~anyDirProvided
        bestId == LowestDownLoop(candidateIds, 1, g, NULL, Infinity)
        segCand == SegCand(g, cur)
        bestLenId == LongestLoop(candidateIds, 1, g, NULL, 0 - Infinity)
    IN IF Len(nextIds) = 0 THEN NULL
       ELSE IF useIL /\ bestId # NULL THEN bestId
       ELSE IF segCand # NULL /\ segCand \in Range(candidateIds) THEN segCand
       ELSE IF bestLenId # NULL THEN bestLenId
       ELSE candidateIds[1]

LookaheadDepth == 10

\* the while-loop of lookaheadScore; scores are kept times 10
RECURSIVE ScoreLoop(_, _, _, _, _, _, _, _, _)
ScoreLoop(g, useILHeuristics, vis, depth, total, hops, id, prev, st) ==
    IF id = NULL \/ hops >= depth THEN total + (depth - hops) * 200
    ELSE IF id \in vis THEN total + 500 + (depth - hops) * 200
    ELSE IF id \in st.local THEN total + 2000 + (depth - hops) * 200
    ELSE IF ~Has(g, id) THEN total + 1000 + (depth - hops) * 200
    ELSE LET d == DownIL(g, id)
             delta == d - st.lastDown
             add == IF useILHeuristics
                    THEN IF st.lastDown # NULL /\ d # NULL
                         THEN IF delta > 5 THEN 10000 + delta * 20 ELSE delta
                         ELSE 50
                    ELSE 10
             lastDown2 == IF useILHeuristics /\ d # NULL THEN d ELSE st.lastDown
             stepIds == Filter(NextObjectIds(g, id), LAMBDA x : x # prev)
             stepId == IF Len(stepIds) > 0
                       THEN chooseNextPipeLowestDownIL(stepIds, g, id)
                       ELSE NULL
         IN ScoreLoop(g, useILHeuristics, vis, depth, total + add, hops + 1, stepId, id,
                      [local |-> st.local \cup {id}, lastDown |-> lastDown2])

\* the score if the IL heuristics were never in effect
lookaheadScoreWithoutIL(startId, g, cur, prev, vis, depth) ==
    ScoreLoop(g, FALSE, vis, depth, 0, 0, startId, cur,
              [local |-> {cur, prev}, lastDown |-> DownIL(g, cur)])

lookaheadScore(startId, g, cur, prev, vis, depth) ==
    ScoreLoop(g, DirSource(g, cur) # "DIR", vis, depth, 0, 0, startId, cur,
              [local |-> {cur, prev}, lastDown |-> DownIL(g, cur)])

\* `a ?? b` on ids
OrElse(a, b) == IF a = NULL THEN b ELSE a

\* `if (score < bestScore) { bestScore = score; bestId = id; }`
KeepBest(best, id, score) ==
    IF score < best.score THEN [id |-> id, score |-> score] ELSE best

\* first id of ids with the lowest lookahead score
RECURSIVE BestScoreLoop(_, _, _, _, _, _, _)
BestScoreLoop(ids, i, g, cur, prev, vis, best) ==
    IF i > Len(ids) THEN best.id
    ELSE BestScoreLoop(ids, i + 1, g, cur, prev, vis,
             KeepBest(best, ids[i],
                      lookaheadScore(ids[i], g, cur, prev, vis, LookaheadDepth)))

chooseBestByLookahead(ids, g, cur, prev, vis) ==
    IF Len(ids) = 1 THEN ids[1]
    ELSE OrElse(BestScoreLoop(ids, 1, g, cur, prev, vis,
                              [id |-> NULL, score |-> Infinity * 10]),
                chooseNextPipeLowestDownIL(ids, g, cur))

\* the candidates left after excluding the previous and the visited segments
EligibleLookahead(ids0, prev, vis) ==
    LET idsNoPrev == Filter(ids0, LAMBDA id : id # prev)
        idsBase == IF Len(idsNoPrev) > 0 THEN idsNoPrev ELSE ids0
        idsUnvisited == Filter(idsBase, LAMBDA id : id \notin vis)
    IN IF Len(idsUnvisited) > 0 THEN idsUnvisited ELSE idsBase

\* tol = 0.05 m
DownhillTolCm == 5

\* the "downhill" filter if it also applied under an explicit DIR
DownhillOrAllAnySource(ids, g, cur) ==
    LET currDown == DownIL(g, cur)
        downhill == Filter(ids, LAMBDA id :
                        DownIL(g, id) = NULL \/ DownIL(g, id) <= currDown + DownhillTolCm)
    IN IF /\ currDown # NULL
          /\ Len(downhill) > 0
          /\ Len(downhill) < Len(ids)
       THEN downhill
       ELSE ids

\* the IL "downhill" filter: the candidates handed to the lookahead. It applies
\* only without an explicit DIR and when it removes some but not all candidates
DownhillOrAll(ids, g, cur) ==
    LET currDown == DownIL(g, cur)
        downhill == Filter(ids, LAMBDA id :
                        DownIL(g, id) = NULL \/ DownIL(g, id) <= currDown + DownhillTolCm)
    IN IF /\ DirSource(g, cur) # "DIR"
          /\ currDown # NULL
          /\ Len(downhill) > 0
          /\ Len(downhill) < Len(ids)
       THEN downhill
       ELSE ids

\* chooseNextPipeWithLookahead from `if (ids.length === 1)` on
ChooseEligible(ids, g, cur, prev, vis) ==
    IF Len(ids) = 1 THEN ids[1]
    ELSE chooseBestByLookahead(DownhillOrAll(ids, g, cur), g, cur, prev, vis)

chooseNextPipeWithLookahead(candidateIds, g, cur, prev, vis) ==
    IF Len(candidateIds) = 0 THEN NULL
    ELSE ChooseEligible(EligibleLookahead(candidateIds, prev, vis), g, cur, prev, vis)

----------------------------------------------------------------------------
(* Runtime same-name jump of the lookahead build *)

\* closestPointOnSegment(a, b, p).dist squared, as a fraction <<num, den>>
SegDist2(a, b, p) ==
    LET ab2 == Dist2(a, b)
        dot == (p[1] - a[1]) * (b[1] - a[1]) + (p[2] - a[2]) * (b[2] - a[2])
    IN IF ab2 = 0 \/ dot <= 0 THEN <<Dist2(a, p), 1>>
       ELSE IF dot >= ab2 THEN <<Dist2(b, p), 1>>
       ELSE <<Dist2(a, p) * ab2 - dot * dot, ab2>>

LessFrac(q, r) == q[1] * r[2] < r[1] * q[2]

\* least distance (squared) from p to the polyline coords, from segment i on
RECURSIVE PolyDistLoop(_, _, _, _)
PolyDistLoop(coords, p, i, best) ==
    IF i > Len(coords) - 1 THEN best
    ELSE LET d == SegDist2(coords[i], coords[i + 1], p)
         IN PolyDistLoop(coords, p, i + 1, IF LessFrac(d, best) THEN d ELSE best)

JumpMaxMeters == 8000

\* the loop over byObjectId.entries(), in the order of the ids
RECURSIVE NameJumpLoop(_, _, _, _, _, _, _)
NameJumpLoop(order, i, g, pointLL, target, excludeIds, best) ==
    IF i > Len(order) THEN best
    ELSE LET id == order[i]
             coords == flattenFeatureCoords(g, id)
             d == PolyDistLoop(coords, pointLL, 1, best.dist)
         IN IF id \in excludeIds \/ SewerName(g, id) = "" \/ SewerName(g, id) # target
               \/ Len(coords) < 2 \/ ~LessFrac(d, best.dist)
            THEN NameJumpLoop(order, i + 1, g, pointLL, target, excludeIds, best)
            ELSE NameJumpLoop(order, i + 1, g, pointLL, target, excludeIds,
                              [id |-> id, dist |-> d])

findNearestObjectIdBySewerNameFromByObjectId(g, pointLL, sewerNameRaw, excludeIds, maxMeters) ==
    LET best == NameJumpLoop(SortAsc(DOMAIN g), 1, g, pointLL, sewerNameRaw, excludeIds,
                             [id |-> NULL, dist |-> <<Infinity, 1>>])
    IN IF sewerNameRaw = "" THEN NULL
       ELSE IF best.id # NULL /\ best.dist[1] <= maxMeters * maxMeters * best.dist[2]
            THEN best.id
       ELSE NULL

\* `if (nextId !== null && visited.has(nextId)) { ... if (alt !== null) nextId = alt }`
\* and the same for the jump's hit
UnlessVisited(nextId, vis, other) ==
    IF nextId # NULL /\ nextId \in vis /\ other # NULL THEN other ELSE nextId

\* the successor of the lookahead tracer: lookahead choice, then an unvisited
\* alternative, then the same-name jump
ResolveNextLookahead(g, cur, ordered, prev, vis) ==
    UnlessVisited(
        UnlessVisited(
            chooseNextPipeWithLookahead(NextObjectIds(g, cur), g, cur, prev, vis),
            vis,
            chooseNextPipeLowestDownIL(
                Filter(NextObjectIds(g, cur), LAMBDA id : id \notin vis), g, cur)),
        vis,
        findNearestObjectIdBySewerNameFromByObjectId(
            g, ordered[Len(ordered)], SewerName(g, cur), vis \cup {cur}, JumpMaxMeters))

----------------------------------------------------------------------------
(* Greedy tracer, lookahead build: buildPipePlanFromObjectId *)

\* the while condition without its loop-closure test
ContinueLookaheadRevisiting ==
    /\ currentId # NULL
    /\ Cardinality(visited) < maxHops

\* the while condition
ContinueLookahead ==
    /\ currentId # NULL
    /\ currentId \notin visited
    /\ Cardinality(visited) < maxHops

\* one iteration of the while-loop
HopLookahead ==
    /\ variant = "lookahead"
    /\ pc = "walking"
    /\ ContinueLookahead
    /\ visited' = visited \cup {currentId}
    /\ LET ordered == orderedCoordsForPipe(byObjectId, currentId)
           out == EmitGreedy(ordered, first, startPoint, visitedCells, plan)
       IN IF ~Has(byObjectId, currentId) \/ Len(ordered) < 2
          THEN /\ pc' = "done"
               /\ UNCHANGED <<currentId, prevId, first, visitedCells, plan, hop, walk>>
          ELSE /\ plan' = out.plan
               /\ visitedCells' = out.cells
               /\ first' = (first /\ startPoint = NoPoint)
               /\ walk' = Append(walk, currentId)
               /\ currentId' = ResolveNextLookahead(byObjectId, currentId, ordered,
                                                    prevId, visited')
               /\ prevId' = currentId
               /\ hop' = hop + 1
               /\ pc' = "walking"
    /\ UNCHANGED <<byObjectId, variant, startObjectId, startPoint, maxHops, dfsVars, loadVars, callVars>>

\* the while condition fails: null successor, loop closure or hop cap
StopLookahead ==
    /\ variant = "lookahead"
    /\ pc = "walking"
    /\ ~ContinueLookahead
    /\ pc' = "done"
    /\ UNCHANGED <<byObjectId, variant, startObjectId, startPoint, maxHops, currentId,
                   prevId, first, visited, visitedCells, plan, hop, walk, dfsVars, loadVars, callVars>>

----------------------------------------------------------------------------
(* DFS tracer with backtracking: buildPipePlanFromObjectId of the target build *)

PipeWidth(g, id) == IF Has(g, id) THEN g[id].width ELSE NULL
PipeHeight(g, id) == IF Has(g, id) THEN g[id].height ELSE NULL

\* one entry of `scored`; the names are compared as trimmed raw strings
ScoredCandidate(g, curName, id) ==
    [ id       |-> id,
      sameName |-> IF curName # "" /\ SewerName(g, id) # "" /\ SewerName(g, id) = curName
                   THEN 1 ELSE 0,
      area     |-> Max(0, PipeWidth(g, id)) * Max(0, PipeHeight(g, id)) ]

\* the comparator of scored.sort returns a negative number
SortsBefore(a, b) ==
    IF b.sameName # a.sameName THEN b.sameName < a.sameName
    ELSE IF b.area # a.area THEN b.area < a.area
    ELSE a.id < b.id

\* scored.sort(...): the entries in the order of the comparator, entries the
\* comparator does not tell apart in their order of arrival
RECURSIVE SortScored(_)
SortScored(scored) ==
    IF Len(scored) = 0 THEN <<>>
    ELSE LET sorted == SortScored(SubSeq(scored, 1, Len(scored) - 1))
             c == scored[Len(scored)]
         IN SelectSeq(sorted, LAMBDA x : ~SortsBefore(c, x))
            \o <<c>>
            \o SelectSeq(sorted, LAMBDA x : SortsBefore(c, x))

\* (candidates || []).map(...), scored.sort(...), scored.map((s) => s.id)
pickCandidateOrder(candidates, g, cur) ==
    LET sorted == SortScored([i \in 1..Len(candidates) |->
                                 ScoredCandidate(g, SewerName(g, cur), candidates[i])])
    IN [i \in 1..Len(sorted) |-> sorted[i].id]

getCandidates(g, id, prev) == Filter(NextObjectIds(g, id), LAMBDA x : x # prev)

\* frames.push({ id, prevId, idx: 0, ordered: null }); `expanded` tells a null
\* `ordered` from an empty list
NewFrame(id, prev) ==
    [id |-> id, prevId |-> prev, idx |-> 0, ordered |-> <<>>, expanded |-> FALSE]

\* the while condition; `found = true; break` leaves the loop as well
ContinueDfs ==
    /\ ~found
    /\ Len(frames) > 0
    /\ Len(path) < maxHops

\* the backtrack if the popped id stayed in inPath
BacktrackKeepingInPath ==
    /\ frames' = SubSeq(frames, 1, Len(frames) - 1)
    /\ path' = SubSeq(path, 1, Len(path) - 1)
    /\ inPath' = inPath
    /\ found' = found

\* frames.pop(); inPath.delete(path.pop())
Backtrack ==
    /\ frames' = SubSeq(frames, 1, Len(frames) - 1)
    /\ path' = SubSeq(path, 1, Len(path) - 1)
    /\ inPath' = inPath \ {path[Len(path)]}
    /\ found' = found

\* top.ordered is set and top.idx++ has taken nextId
Advance(top, ordered, nextId) ==
    LET top2 == [top EXCEPT !.ordered = ordered, !.expanded = TRUE, !.idx = @ + 1]
        rest == [frames EXCEPT ![Len(frames)] = top2]
    IN /\ found' = found
       /\ IF nextId \in inPath
          THEN /\ frames' = rest
               /\ UNCHANGED <<path, inPath>>
          ELSE /\ frames' = Append(rest, NewFrame(nextId, top.id))
               /\ path' = Append(path, nextId)
               /\ inPath' = inPath \cup {nextId}

\* one iteration of the while-loop; hop counts the iterations
DfsStep ==
    /\ variant = "dfs"
    /\ pc = "searching"
    /\ ContinueDfs
    /\ hop' = hop + 1
    /\ LET top == frames[Len(frames)]
           ordered == IF top.expanded THEN top.ordered
                      ELSE pickCandidateOrder(
                               getCandidates(byObjectId, top.id, top.prevId),
                               byObjectId, top.id)
       IN IF ~Has(byObjectId, top.id) THEN Backtrack
          ELSE IF top.id \in targetPipeIds
               THEN /\ found' = TRUE
                    /\ UNCHANGED <<frames, path, inPath>>
          ELSE IF top.idx >= Len(ordered) THEN Backtrack
          ELSE Advance(top, ordered, ordered[top.idx + 1])
    /\ UNCHANGED <<byObjectId, variant, pc, startObjectId, startPoint, maxHops, currentId,
                   prevId, first, visited, visitedCells, plan, walk, targetPipeIds,
                   loadVars, callVars>>

\* pushPoint(pt) on the pair [plan, cells]
pushPoint(pt, st) ==
    IF gridKey(pt) \in st.cells THEN st
    ELSE [plan |-> Append(st.plan, pt), cells |-> st.cells \cup {gridKey(pt)}]

\* `if (last && metersBetween(last, coords[i]) < 0.2) continue; pushPoint(coords[i])`
PushUnlessAtLast(pt, st) ==
    IF Len(st.plan) > 0 /\ CloserThan20cm(st.plan[Len(st.plan)], pt) THEN st
    ELSE pushPoint(pt, st)

\* the loops over coords[i], i from the given index on
RECURSIVE PushCoordsLoop(_, _, _)
PushCoordsLoop(coords, i, st) ==
    IF i > Len(coords) THEN st
    ELSE PushCoordsLoop(coords, i + 1, PushUnlessAtLast(coords[i], st))

\* the body of the loop over pipeIds for one pipe; this build emits the
\* coordinates in geometry order (its orderedCoordsForPipe is flattenFeatureCoords)
EmitPipe(coords, isEntry, sp, st) ==
    IF Len(coords) < 2 THEN st
    ELSE IF isEntry /\ sp # NoPoint
         THEN PushCoordsLoop(coords, NearestIdx(coords, sp), pushPoint(sp, st))
         ELSE PushCoordsLoop(coords, 1, st)

\* for (let pi = 0; pi < pipeIds.length; pi++)
RECURSIVE EmitPathLoop(_, _, _, _, _)
EmitPathLoop(g, pipeIds, pi, sp, st) ==
    IF pi > Len(pipeIds) THEN st
    ELSE EmitPathLoop(g, pipeIds, pi + 1, sp,
             EmitPipe(flattenFeatureCoords(g, pipeIds[pi]), pi = 1, sp, st))

\* the loop is left: the plan is built from path and returned
DfsReturn ==
    /\ variant = "dfs"
    /\ pc = "searching"
    /\ ~ContinueDfs
    /\ LET out == EmitPathLoop(byObjectId, path, 1, startPoint,
                               [plan |-> <<>>, cells |-> {}])
       IN /\ plan' = out.plan
          /\ visitedCells' = out.cells
    /\ walk' = path
    /\ pc' = "done"
    /\ UNCHANGED <<byObjectId, variant, startObjectId, startPoint, maxHops, currentId,
                   prevId, first, visited, hop, dfsVars, loadVars, callVars>>

----------------------------------------------------------------------------
(* Networks of the model *)

\* geometry of segment i in file order: an eastward, a northward, a three-vertex
\* westward (digitised downstream-to-upstream) and a south-westward polyline
GeomOf(i) ==
    CASE i % 4 = 1 -> << <<0, 0>>, <<10, 0>> >>
      [] i % 4 = 2 -> << <<10, 0>>, <<10, 10>> >>
      [] i % 4 = 3 -> << <<30, 0>>, <<20, 0>>, <<10, 0>> >>
      [] i % 4 = 0 -> << <<10, 0>>, <<0, 0 - 10>> >>

\* a feature with its property bag as `load` leaves it
BaseFeature(i) ==
    [ coords    |-> GeomOf(i),
      dir       |-> IF i % 4 = 3 THEN "d_to_u" ELSE "u_to_d",
      dirSource |-> IF i % 2 = 0 THEN "DIR" ELSE "IL",
      name      |-> CASE i % 4 = 1 -> "MAIN ST"
                      [] i % 4 = 2 -> "Main St."
                      [] i % 4 = 3 -> "SIDE"
                      [] i % 4 = 0 -> "",
      downIL    |-> CASE i % 4 = 1 -> 500
                      [] i % 4 = 2 -> 400
                      [] i % 4 = 3 -> 450
                      [] i % 4 = 0 -> NULL,
      len       |-> 10 * i,
      segCand   |-> NULL,
      width     |-> 300 * i,
      height    |-> IF i % 4 \in {0, 3} THEN 600 ELSE NULL,
      vHalf     |-> 100,
      next      |-> <<>> ]

\* every directed graph of successor links without self links
Topologies == {t \in [Ids -> SUBSET Ids] : \A i \in Ids : i \notin t[i]}

Defects == {"none", "missing", "short"}

\* the network with links t; segment 2 may be absent from byObjectId (though
\* still listed as a successor) or have a single coordinate
GraphOf(t, defect) ==
    [i \in Ids \ (IF defect = "missing" THEN {2} ELSE {}) |->
        [BaseFeature(i) EXCEPT
            !.next = SortAsc(t[i]),
            !.coords = IF defect = "short" /\ i = 2 THEN <<@[1]>> ELSE @]]

EntryPoints == {NoPoint, <<4, 1>>}

NoCall == [id |-> NULL, pt |-> NoPoint, plan |-> <<>>]

\* no point has been added to the map; the network is loaded; no animation
\* and no second call of the tracer runs
NoEntity ==
    /\ thePoint = NULL
    /\ pipeReady = TRUE
    /\ speed10x = FALSE
    /\ caller = "none"
    /\ anim = NULL
    /\ second = NULL

\* the load effect is over, its working state is not kept; no call has returned
NotLoading ==
    /\ features = <<>>
    /\ endpointRecords = <<>>
    /\ flowStartsByCell = <<>>
    /\ pipes = <<>>
    /\ uf = [p |-> <<>>, r |-> <<>>]
    /\ nodeIndex = <<>>
    /\ cursor = 0
    /\ phase = "first"
    /\ firstCall = NoCall
    /\ NoEntity

\* state at the entry of buildPipePlanFromObjectId(id, pt, g, cap)
CallGreedy(v, g, id, pt, cap) ==
    /\ byObjectId = g
    /\ variant = v
    /\ pc = "walking"
    /\ startObjectId = id
    /\ startPoint = pt
    /\ maxHops = cap
    /\ currentId = id
    /\ prevId = NULL
    /\ first = TRUE
    /\ visited = {}
    /\ visitedCells = {}
    /\ plan = <<>>
    /\ hop = 0
    /\ walk = <<>>
    /\ frames = <<>>
    /\ path = <<>>
    /\ inPath = {}
    /\ found = FALSE
    /\ targetPipeIds = {}
    /\ NotLoading

InitGreedy ==
    \E v \in {"dironly", "lookahead"}, t \in Topologies, defect \in Defects,
       id \in Ids \cup {UnknownId, NULL}, pt \in EntryPoints,
       cap \in {SmallCap, NumSegs + 2} :
        CallGreedy(v, GraphOf(t, defect), id, pt, cap)

NextGreedy == HopDirOnly \/ StopDirOnly \/ HopLookahead \/ StopLookahead

SpecGreedy == InitGreedy /\ [][NextGreedy]_vars

----------------------------------------------------------------------------
(* Forks given to the successor resolution of the lookahead build *)

ForkIds == 1..(NumSegs + 1)

\* SEWER_NAME of segments 1, 2 and 3; later segments carry the third name
ForkNames ==
    { <<"", "", "">>,
      <<"MAIN ST", "Main St.", "SIDE">>,
      <<"MAIN ST", "", "Main St.">>,
      <<"MAIN ST", "MAIN ST", "Main St.">> }

\* _dir_source of segments 1, 2 and 3; later segments are IL-sourced
ForkSources == [1..3 -> {"DIR", "IL"}]

\* DOWNSTREAM_IL in cm of segments 1, 2 and 3; later segments lie at 4.00 m.
\* `load` sets the source "IL" only on segments that have both invert levels
ForkLevels(src) ==
    {lv \in [1..3 -> {NULL, 200, 300, 400, 500, 600}] :
        /\ lv[1] \in {NULL, 200, 400, 600}
        /\ lv[2] \in {NULL, 300, 500}
        /\ lv[3] \in {NULL, 300, 500}
        /\ \A i \in 1..3 : src[i] = "IL" => lv[i] # NULL}

\* _nextObjectIds of segments 2 and 3: any segments but 1 and themselves
ForkOnward ==
    {o \in [2..3 -> SUBSET (ForkIds \ {1})] : \A i \in 2..3 : i \notin o[i]}

\* segment 1 leads to 2 and 3, listed in `order`; segments after 3 are dead ends
ForkGraph(order, onward, src, lv, nm) ==
    [i \in ForkIds |->
        [BaseFeature(i) EXCEPT
            !.next = IF i = 1 THEN order
                     ELSE IF i <= 3 THEN SortAsc(onward[i])
                     ELSE <<>>,
            !.dir = "u_to_d",
            !.dirSource = IF i <= 3 THEN src[i] ELSE "IL",
            !.downIL = IF i <= 3 THEN lv[i] ELSE 400,
            !.name = IF i <= 3 THEN nm[i] ELSE nm[3]]]

InitFork ==
    \E order \in {<<2, 3>>, <<3, 2>>}, onward \in ForkOnward, src \in ForkSources,
       nm \in ForkNames :
        \E lv \in ForkLevels(src) :
            CallGreedy("lookahead", ForkGraph(order, onward, src, lv, nm), 1, NoPoint,
                       NumSegs + 2)

NextFork == HopLookahead \/ StopLookahead

SpecFork == InitFork /\ [][NextFork]_vars

----------------------------------------------------------------------------
(* Junctions given to the greedy tracers: one segment with any candidate list *)

\* the lists of distinct members of S: _nextObjectIds stands in the order in
\* which load met the features, which need not be the order of the ids
Orderings(S) ==
    UNION {{s \in [1..n -> S] : \A a, b \in 1..n : a # b => s[a] # s[b]} :
               n \in 0..Cardinality(S)}

\* at most one successor for every segment, never the segment itself
SingleLinks ==
    {t \in [ForkIds -> {<<>>} \cup {<<k>> : k \in ForkIds}] : \A i \in ForkIds : t[i] # <<i>>}

\* the defective segments of a junction network: none, one or two
DefectiveSets == {{}, {2}, {2, 3}}

\* segment j leads to the segments of cands, in that order; the others follow
\* `single`; the segments of `bad` have a single coordinate (short) or are
\* absent from byObjectId, though still listed as successors
JunctionGraph(j, cands, single, bad, short) ==
    [i \in ForkIds \ (IF short THEN {} ELSE bad) |->
        [BaseFeature(i) EXCEPT
            !.next = IF i = j THEN cands ELSE single[i],
            !.coords = IF short /\ i \in bad THEN <<@[1]>> ELSE @]]

InitJunction ==
    \E v \in {"dironly", "lookahead"}, j \in ForkIds, single \in SingleLinks,
       bad \in DefectiveSets, short \in BOOLEAN :
        \E cands \in Orderings(ForkIds \ {j}) :
            CallGreedy(v, JunctionGraph(j, cands, single, bad, short), 1, NoPoint,
                       NumSegs + 2)

NextJunction == HopDirOnly \/ StopDirOnly \/ HopLookahead \/ StopLookahead

SpecJunction == InitJunction /\ [][NextJunction]_vars

----------------------------------------------------------------------------
(* Chains given to the greedy tracer of the DIR-only build *)

\* the steps between consecutive vertices: 10 m east, 10 m north, 2 m east
ChainSteps == {<<10, 0>>, <<0, 10>>, <<2, 0>>}

\* vertex k of the chain, vertex 0 at the origin
RECURSIVE ChainPoint(_, _)
ChainPoint(steps, k) ==
    IF k = 0 THEN <<0, 0>>
    ELSE <<ChainPoint(steps, k - 1)[1] + steps[k][1],
           ChainPoint(steps, k - 1)[2] + steps[k][2]>>

\* the three vertices of segment i in flow order
ChainFlow(steps, i) ==
    <<ChainPoint(steps, 2 * i - 2), ChainPoint(steps, 2 * i - 1), ChainPoint(steps, 2 * i)>>

\* segment i leads to segment i + 1 alone; no name, no invert level; a segment
\* with DIR d_to_u is digitised against the flow
ChainGraph(steps, dirs) ==
    [i \in Ids |->
        [BaseFeature(i) EXCEPT
            !.coords = IF dirs[i] = "d_to_u" THEN Reverse(ChainFlow(steps, i))
                       ELSE ChainFlow(steps, i),
            !.dir = dirs[i],
            !.dirSource = "DIR",
            !.name = "",
            !.downIL = NULL,
            !.next = IF i < NumSegs THEN <<i + 1>> ELSE <<>>]]

ChainEntryPoints == {<<1, 1>>, <<9, 1>>}

InitChain ==
    \E steps \in [1..(2 * NumSegs) -> ChainSteps], dirs \in [Ids -> {"u_to_d", "d_to_u"}],
       pt \in ChainEntryPoints :
        CallGreedy("dironly", ChainGraph(steps, dirs), 1, pt, NumSegs + 2)

NextChain == HopDirOnly \/ StopDirOnly

SpecChain == InitChain /\ [][NextChain]_vars

----------------------------------------------------------------------------
(* Calls of the DFS tracer *)

\* state after the seed of buildPipePlanFromObjectId(id, pt, g, cap); a null or
\* unregistered id returns the empty plan at once
CallDfs(g, id, pt, cap, targets) ==
    /\ byObjectId = g
    /\ variant = "dfs"
    /\ startObjectId = id
    /\ startPoint = pt
    /\ maxHops = cap
    /\ targetPipeIds = targets
    /\ NotLoading
    /\ currentId = NULL
    /\ prevId = NULL
    /\ first = TRUE
    /\ visited = {}
    /\ visitedCells = {}
    /\ plan = <<>>
    /\ hop = 0
    /\ walk = <<>>
    /\ found = FALSE
    /\ IF id = NULL \/ ~Has(g, id)
       THEN /\ pc = "done"
            /\ frames = <<>>
            /\ path = <<>>
            /\ inPath = {}
       ELSE /\ pc = "searching"
            /\ frames = <<NewFrame(id, NULL)>>
            /\ path = <<id>>
            /\ inPath = {id}

TargetSets == {{}, {NumSegs}}

InitDfs ==
    \E t \in Topologies, defect \in Defects, id \in Ids \cup {UnknownId, NULL},
       pt \in EntryPoints, cap \in {SmallCap, NumSegs + 2}, targets \in TargetSets :
        CallDfs(GraphOf(t, defect), id, pt, cap, targets)

NextDfs == DfsStep \/ DfsReturn

SpecDfs == InitDfs /\ [][NextDfs]_vars

----------------------------------------------------------------------------
(* Chains entered at a point, given to both tracers *)

\* the DFS tracer is given the chain with its second or its last segment as target
InitEmission ==
    \/ InitChain
    \/ \E steps \in [1..(2 * NumSegs) -> ChainSteps], pt \in ChainEntryPoints,
          target \in {2, NumSegs} :
           CallDfs(ChainGraph(steps, [i \in Ids |-> "u_to_d"]), 1, pt, NumSegs + 2, {target})

NextEmission == HopDirOnly \/ StopDirOnly \/ DfsStep \/ DfsReturn

SpecEmission == InitEmission /\ [][NextEmission]_vars

----------------------------------------------------------------------------
(* Candidate lists given to chooseNextPipeLowestDownIL *)

\* PIPE_LENGTH and DOWNSTREAM_IL of a candidate: absent, or one of two values
FallbackLengths == {NULL, 10, 20}
FallbackLevels == {NULL, 300, 400}

\* segment 1 leads to the segments of `order`; no segment has a DIR attribute
\* or an UPSTREAM_IL, so that every _dir_source is "default"
FallbackGraph(order, lens, lv, nm) ==
    [i \in ForkIds |->
        [BaseFeature(i) EXCEPT
            !.next = IF i = 1 THEN order ELSE <<>>,
            !.dir = "u_to_d",
            !.dirSource = "default",
            !.len = IF i = 1 THEN NULL ELSE lens[i],
            !.downIL = IF i = 1 THEN NULL ELSE lv[i],
            !.name = IF i <= 3 THEN nm[i] ELSE nm[3]]]

\* const alt = chooseNextPipeLowestDownIL(ids, byObjectId, p); nextId = alt:
\* the function applied to the candidate list of the segment in hand
ResolveLowestDownIL ==
    /\ variant = "fallback"
    /\ pc = "walking"
    /\ currentId' = chooseNextPipeLowestDownIL(NextObjectIds(byObjectId, currentId),
                                               byObjectId, currentId)
    /\ prevId' = currentId
    /\ pc' = "done"
    /\ UNCHANGED <<byObjectId, variant, startObjectId, startPoint, maxHops, first, visited,
                   visitedCells, plan, hop, walk, dfsVars, loadVars, callVars>>

InitFallback ==
    \E order \in Orderings(ForkIds \ {1}), lens \in [ForkIds \ {1} -> FallbackLengths],
       lv \in [ForkIds \ {1} -> FallbackLevels], nm \in ForkNames :
        CallGreedy("fallback", FallbackGraph(order, lens, lv, nm), 1, NoPoint, NumSegs + 2)

NextFallback == ResolveLowestDownIL

SpecFallback == InitFallback /\ [][NextFallback]_vars

----------------------------------------------------------------------------
(* Calls of the DFS tracer on junction networks *)

\* the DFS tracer on the junction networks, with a target off the first branch
\* or at the end of the network, and a step cap below the number of segments
SearchTargets == {{2}, {NumSegs + 1}}

InitSearch ==
    \E j \in ForkIds, single \in SingleLinks, targets \in SearchTargets,
       cap \in {NumSegs, NumSegs + 2} :
        \E cands \in Orderings(ForkIds \ {j}) :
            CallDfs(JunctionGraph(j, cands, single, {}, FALSE), 1, NoPoint, cap, targets)

NextSearch == DfsStep \/ DfsReturn

SpecSearch == InitSearch /\ [][NextSearch]_vars

----------------------------------------------------------------------------
(* Candidate lists given to pickCandidateOrder *)

\* PIPE_WIDTH and PIPE_HEIGHT of a candidate, in mm: none, two circular pipes
\* (no PIPE_HEIGHT) and a box
SizeKinds ==
    { [width |-> NULL, height |-> NULL],
      [width |-> 300, height |-> NULL],
      [width |-> 1200, height |-> NULL],
      [width |-> 600, height |-> 600] }

\* segment 1 leads to the segments of `order`, which are dead ends
OrderGraph(order, own, sizes, nms) ==
    [i \in ForkIds |->
        [BaseFeature(i) EXCEPT
            !.next = IF i = 1 THEN order ELSE <<>>,
            !.name = IF i = 1 THEN own ELSE nms[i],
            !.width = IF i = 1 THEN 300 ELSE sizes[i].width,
            !.height = IF i = 1 THEN NULL ELSE sizes[i].height]]

\* the DFS tracer is started on segment 1 without a target in the network
InitOrder ==
    \E order \in Orderings(ForkIds \ {1}), own \in {"MAIN ST", ""},
       sizes \in [ForkIds \ {1} -> SizeKinds],
       nms \in [ForkIds \ {1} -> {"MAIN ST", "SIDE"}] :
        CallDfs(OrderGraph(order, own, sizes, nms), 1, NoPoint, NumSegs + 2, {})

NextOrder == DfsStep \/ DfsReturn

SpecOrder == InitOrder /\ [][NextOrder]_vars

----------------------------------------------------------------------------
(* Sessions of several calls on one network (enterPipeMode calls the tracer   *)
(* each time the user enters the pipe)                                        *)

\* the locals of a call if `visited` outlived the call before it
StaleGreedyLocals(id) ==
    /\ currentId' = id
    /\ prevId' = NULL
    /\ first' = TRUE
    /\ visited' = visited
    /\ visitedCells' = {}
    /\ plan' = <<>>
    /\ hop' = 0
    /\ walk' = <<>>
    /\ pc' = "walking"
    /\ UNCHANGED <<frames, path, inPath, found>>

\* the locals of the greedy tracer, created anew by every call
FreshGreedyLocals(id) ==
    /\ currentId' = id
    /\ prevId' = NULL
    /\ first' = TRUE
    /\ visited' = {}
    /\ visitedCells' = {}
    /\ plan' = <<>>
    /\ hop' = 0
    /\ walk' = <<>>
    /\ pc' = "walking"
    /\ UNCHANGED <<frames, path, inPath, found>>

\* the locals of the DFS tracer after its seed, created anew by every call
FreshDfsLocals(id) ==
    /\ plan' = <<>>
    /\ visitedCells' = {}
    /\ hop' = 0
    /\ walk' = <<>>
    /\ found' = FALSE
    /\ IF id = NULL \/ ~Has(byObjectId, id)
       THEN /\ pc' = "done"
            /\ frames' = <<>>
            /\ path' = <<>>
            /\ inPath' = {}
       ELSE /\ pc' = "searching"
            /\ frames' = <<NewFrame(id, NULL)>>
            /\ path' = <<id>>
            /\ inPath' = {id}
    /\ UNCHANGED <<currentId, prevId, first, visited>>

\* buildPipePlanFromObjectId(id, pt, byObjectId) is called on the same network
BeginCall(id, pt) ==
    /\ startObjectId' = id
    /\ startPoint' = pt
    /\ IF variant = "dfs" THEN FreshDfsLocals(id) ELSE FreshGreedyLocals(id)
    /\ UNCHANGED <<byObjectId, variant, maxHops, targetPipeIds, loadVars>>

\* the first call has returned; the tracer is called for some entry
CallOther ==
    /\ variant \in {"dironly", "dfs"}
    /\ pc = "done"
    /\ phase = "first"
    /\ phase' = "other"
    /\ UNCHANGED <<second, entityVars>>
    /\ firstCall' = [id |-> startObjectId, pt |-> startPoint, plan |-> plan]
    /\ \E id \in Ids, pt \in EntryPoints : BeginCall(id, pt)

\* the second call has returned; the tracer is called for the first entry again
CallAgain ==
    /\ variant \in {"dironly", "dfs"}
    /\ pc = "done"
    /\ phase = "other"
    /\ phase' = "again"
    /\ UNCHANGED <<second, entityVars>>
    /\ firstCall' = firstCall
    /\ BeginCall(firstCall.id, firstCall.pt)

\* the networks of the sessions: every segment leads to some of the next two
SessionTopologies ==
    {t \in Topologies :
        \A i \in Ids : t[i] \subseteq {(i % NumSegs) + 1, ((i + 1) % NumSegs) + 1}}

InitSession ==
    \E t \in SessionTopologies, id \in Ids, pt \in EntryPoints :
        \/ CallGreedy("dironly", GraphOf(t, "none"), id, pt, NumSegs + 2)
        \/ CallDfs(GraphOf(t, "none"), id, pt, NumSegs + 2, {NumSegs})

NextSession ==
    HopDirOnly \/ StopDirOnly \/ DfsStep \/ DfsReturn \/ CallOther \/ CallAgain

SpecSession == InitSession /\ [][NextSession]_vars

----------------------------------------------------------------------------
(* App of the DIR-only build: a point on its way to and through the pipes *)

\* speeds are in cm/s
STREET_SPEED_MPS == 110
PIPE_SPEED_MIN_MPS == 20
PIPE_SPEED_MAX_MPS == 300
TICK_MS == 80

\* `pt.pipe?.speedMps || 0.6`
DefaultPipeSpeed == 60

\* positions of the point are in units of 2 mm, so that every step of a tick
\* is a whole number of units
UnitsPerMetre == 500

ToUnits(p) == <<p[1] * UnitsPerMetre, p[2] * UnitsPerMetre>>

clamp(n, a, b) == Max(a, Min(b, n))

\* `toNum(v) || other`: a missing, unparseable or zero number gives `other`
NumOr(v, other) == IF v = NULL \/ v = 0 THEN other ELSE v

\* toNum(props._v_half_mps) of the feature id, props = {} for a missing feature
VHalf(g, id) == IF Has(g, id) THEN g[id].vHalf ELSE NULL

\* stepMeters = (speed * speedMult * TICK_MS) / 1000, in units
StepUnits(speed, fast) ==
    (speed * (IF fast THEN 10 ELSE 1) * TICK_MS * UnitsPerMetre) \div 100000

\* metersBetween(here, target) in units; the legs of the model's routes and
\* plans run along the axes
LegLength(a, b) == Abs(a[1] - b[1]) + Abs(a[2] - b[2])

\* a move that makes no headway
MoveTowardStalling(here, target, step, dist) == here

\* lat + (target.lat - lat) * f and the same for lng, f = stepMeters / dist
MoveToward(here, target, step, dist) ==
    <<here[1] + ((target[1] - here[1]) * step) \div dist,
      here[2] + ((target[2] - here[2]) * step) \div dist>>

\* closestPointOnSegment(a, b, start).point for a segment along an axis
ClosestOnSegment(a, b, start) ==
    <<clamp(start[1], Min(a[1], b[1]), Max(a[1], b[1])),
      clamp(start[2], Min(a[2], b[2]), Max(a[2], b[2]))>>

\* considerLineString: the segments of feature f from index i on
RECURSIVE ConsiderLineString(_, _, _, _, _)
ConsiderLineString(fts, f, i, start, best) ==
    IF i > Len(fts[f].coords) - 1 THEN best
    ELSE LET q == ClosestOnSegment(fts[f].coords[i], fts[f].coords[i + 1], start)
         IN ConsiderLineString(fts, f, i + 1, start,
                IF ~best.found \/ Dist2(q, start) < best.dist
                THEN [found |-> TRUE, dist |-> Dist2(q, start), point |-> q, feature |-> f]
                ELSE best)

\* findNearestPipeContact(geojson, start): the loop over the features
RECURSIVE findNearestPipeContact(_, _, _, _)
findNearestPipeContact(fts, f, start, best) ==
    IF f > Len(fts) THEN best
    ELSE findNearestPipeContact(fts, f + 1, start,
                                ConsiderLineString(fts, f, 1, start, best))

\* the entry of `points` made by addPoint; the nested objects street, contact
\* and pipe are flattened: routed = (street is set), inPipe = (pipe is set),
\* contactPoint = NoPoint when contact is null, hasPlan = (pipePlan is set);
\* entering = (the timer set by setTimeout(() => enterPipeMode(pt.id), 0) is due)
NewPoint(pos) ==
    [ mode |-> "street", pos |-> pos, error |-> "",
      routed |-> FALSE, route |-> <<>>, streetIdx |-> 0, streetSpeedMps |-> 0,
      visible |-> FALSE, entering |-> FALSE,
      contactPoint |-> NoPoint, pipeObjectId |-> NULL,
      inPipe |-> FALSE, objectId |-> NULL, idx |-> 0, speedMps |-> 0,
      segmentVelocityMps |-> 0,
      hasPlan |-> FALSE, pipePlan |-> <<>> ]

\* the point after buildStreetRouteForPoint has set its route and contact
RoutedPoint(p, cpt, objectId, hasPlan, pl) ==
    [p EXCEPT !.mode = "street", !.routed = TRUE,
              !.route = <<p.pos, ToUnits(cpt)>>, !.streetIdx = 1,
              !.streetSpeedMps = STREET_SPEED_MPS, !.visible = TRUE,
              !.contactPoint = cpt, !.pipeObjectId = objectId,
              !.inPipe = FALSE, !.hasPlan = hasPlan, !.pipePlan = pl]

\* what a handler that does not call the tracer leaves alone
TracerUntouched ==
    UNCHANGED <<byObjectId, variant, startObjectId, startPoint, maxHops, currentId, prevId,
                first, visited, visitedCells, plan, hop, walk, dfsVars, loadVars,
                phase, firstCall, second, pipeReady, speed10x, anim>>

\* buildStreetRouteForPoint(pointId, startLL) up to its call of the tracer;
\* fetchOsrmRoute answers with the straight route or fails
BuildStreetRouteForPoint ==
    /\ variant = "dironly"
    /\ caller = "none"
    /\ thePoint.mode = "street"
    /\ ~thePoint.routed
    /\ thePoint.error = ""
    /\ pipeReady
    /\ LET contact == findNearestPipeContact(features, 1,
                          <<thePoint.pos[1] \div UnitsPerMetre, thePoint.pos[2] \div UnitsPerMetre>>,
                          [found |-> FALSE, dist |-> 0, point |-> NoPoint, feature |-> 0])
       IN IF ~contact.found
          THEN /\ thePoint' = [thePoint EXCEPT !.mode = "error", !.error = "No pipes found"]
               /\ UNCHANGED <<pc, caller>>
               /\ TracerUntouched
          ELSE \E routeOk \in BOOLEAN :
                 IF ~routeOk
                 THEN /\ thePoint' = [thePoint EXCEPT !.mode = "error", !.error = "OSRM failed"]
                      /\ UNCHANGED <<pc, caller>>
                      /\ TracerUntouched
                 ELSE IF features[contact.feature].objectId = NULL
                 THEN /\ thePoint' = RoutedPoint(thePoint, contact.point, NULL, FALSE, <<>>)
                      /\ UNCHANGED <<pc, caller>>
                      /\ TracerUntouched
                 ELSE /\ BeginCall(features[contact.feature].objectId, contact.point)
                      /\ caller' = "buildStreetRouteForPoint"
                      /\ UNCHANGED <<thePoint, pipeReady, speed10x, phase, firstCall, second, anim>>

\* the tracer has returned to buildStreetRouteForPoint: setPoints
BuildStreetRouteReturn ==
    /\ caller = "buildStreetRouteForPoint"
    /\ pc = "done"
    /\ thePoint' = RoutedPoint(thePoint, startPoint, startObjectId, TRUE, plan)
    /\ caller' = "none"
    /\ pc' = "idle"
    /\ TracerUntouched

\* a tick on a point in street mode that sets the timer of enterPipeMode on
\* every tick, not only when the last point of the route is reached
StreetTickEntersEarly ==
    /\ variant = "dironly"
    /\ caller = "none"
    /\ thePoint.mode = "street"
    /\ thePoint.routed
    /\ LET idx == NumOr(thePoint.streetIdx, 1)
           step == StepUnits(thePoint.streetSpeedMps, speed10x)
       IN IF idx + 1 > Len(thePoint.route)
          THEN thePoint' = thePoint
          ELSE LET target == thePoint.route[idx + 1]
                   dist == LegLength(thePoint.pos, target)
               IN IF dist <= step
                  THEN thePoint' = [thePoint EXCEPT
                                       !.pos = target,
                                       !.streetIdx = idx + 1,
                                       !.entering = TRUE]
                  ELSE thePoint' = [thePoint EXCEPT
                                       !.pos = MoveToward(thePoint.pos, target, step, dist),
                                       !.entering = TRUE]
    /\ UNCHANGED <<pc, caller>>
    /\ TracerUntouched

\* one tick on a point in street mode with a route
StreetTick ==
    /\ variant = "dironly"
    /\ caller = "none"
    /\ thePoint.mode = "street"
    /\ thePoint.routed
    /\ LET idx == NumOr(thePoint.streetIdx, 1)
           step == StepUnits(thePoint.streetSpeedMps, speed10x)
       IN IF idx + 1 > Len(thePoint.route)
          THEN thePoint' = thePoint
          ELSE LET target == thePoint.route[idx + 1]
                   dist == LegLength(thePoint.pos, target)
               IN IF dist <= step
                  THEN thePoint' = [thePoint EXCEPT
                                       !.pos = target,
                                       !.streetIdx = idx + 1,
                                       !.entering = (@ \/ idx + 1 >= Len(thePoint.route))]
                  ELSE thePoint' = [thePoint EXCEPT
                                       !.pos = MoveToward(thePoint.pos, target, step, dist)]
    /\ UNCHANGED <<pc, caller>>
    /\ TracerUntouched

\* pt after enterPipeMode found that it cannot enter the pipe
NotReadyPoint(p) == [p EXCEPT !.mode = "error", !.error = "Pipe network not ready", !.entering = FALSE]

\* enterPipeMode without its check of pipeData.byObjectId
EnterPipeModeUnguarded ==
    /\ variant = "dironly"
    /\ caller = "none"
    /\ thePoint.entering
    /\ IF thePoint.pipeObjectId = NULL \/ thePoint.contactPoint = NoPoint
       THEN /\ thePoint' = NotReadyPoint(thePoint)
            /\ UNCHANGED <<pc, caller>>
            /\ TracerUntouched
       ELSE /\ BeginCall(thePoint.pipeObjectId, thePoint.contactPoint)
            /\ caller' = "enterPipeMode"
            /\ thePoint' = [thePoint EXCEPT !.entering = FALSE]
            /\ UNCHANGED <<pipeReady, speed10x, phase, firstCall, second, anim>>

\* enterPipeMode(pointId), run by the timer, up to its call of the tracer
EnterPipeMode ==
    /\ variant = "dironly"
    /\ caller = "none"
    /\ thePoint.entering
    /\ IF ~pipeReady \/ thePoint.pipeObjectId = NULL \/ thePoint.contactPoint = NoPoint
       THEN /\ thePoint' = NotReadyPoint(thePoint)
            /\ UNCHANGED <<pc, caller>>
            /\ TracerUntouched
       ELSE /\ BeginCall(thePoint.pipeObjectId, thePoint.contactPoint)
            /\ caller' = "enterPipeMode"
            /\ thePoint' = [thePoint EXCEPT !.entering = FALSE]
            /\ UNCHANGED <<pipeReady, speed10x, phase, firstCall, second, anim>>

\* the tracer has returned to enterPipeMode: the point is in the pipe
EnterPipeModeReturn ==
    /\ caller = "enterPipeMode"
    /\ pc = "done"
    /\ LET v == clamp(NumOr(VHalf(byObjectId, startObjectId), 0),
                      PIPE_SPEED_MIN_MPS, PIPE_SPEED_MAX_MPS)
       IN thePoint' = [thePoint EXCEPT
                          !.mode = "pipe",
                          !.visible = FALSE,
                          !.inPipe = TRUE, !.objectId = startObjectId, !.idx = 1,
                          !.speedMps = v, !.segmentVelocityMps = v,
                          !.hasPlan = TRUE, !.pipePlan = plan]
    /\ caller' = "none"
    /\ pc' = "idle"
    /\ TracerUntouched

\* a tick that finds no target would report a failure
AfterLastTargetError(p) == [p EXCEPT !.mode = "error"]

\* `if (!target) return { ...pt, mode: "arrived" }`
AfterLastTarget(p) == [p EXCEPT !.mode = "arrived"]

\* the speed a tick gives to the point p in pipe mode
TickSpeed(p) ==
    LET speed == NumOr(IF p.inPipe THEN p.speedMps ELSE NULL, DefaultPipeSpeed)
    IN IF pipeReady /\ p.inPipe /\ p.objectId # NULL
       THEN clamp(NumOr(VHalf(byObjectId, p.objectId), speed),
                  PIPE_SPEED_MIN_MPS, PIPE_SPEED_MAX_MPS)
       ELSE speed

\* one tick on a point in pipe mode with a plan
PipeTick ==
    /\ variant = "dironly"
    /\ caller = "none"
    /\ thePoint.mode = "pipe"
    /\ thePoint.hasPlan
    /\ LET idx == NumOr(IF thePoint.inPipe THEN thePoint.idx ELSE NULL, 1)
           speed == TickSpeed(thePoint)
           step == StepUnits(speed, speed10x)
       IN IF idx + 1 > Len(thePoint.pipePlan)
          THEN thePoint' = AfterLastTarget(thePoint)
          ELSE LET target == ToUnits(thePoint.pipePlan[idx + 1])
                   dist == LegLength(thePoint.pos, target)
               IN IF dist <= step
                  THEN thePoint' = [thePoint EXCEPT
                                       !.pos = target,
                                       !.inPipe = TRUE,
                                       !.idx = idx + 1,
                                       !.speedMps = speed,
                                       !.mode = IF idx + 1 >= Len(thePoint.pipePlan)
                                                THEN "arrived" ELSE "pipe"]
                  ELSE thePoint' = [thePoint EXCEPT
                                       !.pos = MoveToward(thePoint.pos, target, step, dist),
                                       !.inPipe = TRUE,
                                       !.speedMps = speed]
    /\ UNCHANGED <<pc, caller>>
    /\ TracerUntouched

\* a tick that sends a stopped point back to the street
IdleTickRetrying ==
    /\ variant = "dironly"
    /\ thePoint.mode \in {"error", "arrived"} \/ (thePoint.mode = "street" /\ ~thePoint.routed)
    /\ thePoint' = [thePoint EXCEPT !.mode = "street", !.error = ""]
    /\ UNCHANGED <<pc, caller>>
    /\ TracerUntouched

\* one tick on a point that the callback returns as it is: `if (pt.mode ===
\* "error" || pt.mode === "arrived") return pt`, and the final `return pt` for
\* a point in street mode that has no route yet
IdleTick ==
    /\ variant = "dironly"
    /\ thePoint.mode \in {"error", "arrived"} \/ (thePoint.mode = "street" /\ ~thePoint.routed)
    /\ thePoint' = thePoint
    /\ UNCHANGED <<pc, caller>>
    /\ TracerUntouched

\* length in metres of the one-leg segments of the street's sewer
EntityLegMetres == 5

\* _v_half_mps of the segments as load leaves it: missing, zero, below the
\* range of the clamp, inside it or above it on segment 1; inside or above
\* on the others
Velocities ==
    {v \in [Ids -> {NULL, 0, 10, 100, 500}] :
        \A i \in Ids \ {1} : v[i] = v[2] /\ v[2] \in {100, 500}}

\* pipeData.geojson.features: a sewer running east in segments of one leg;
\* the feature noid has no OBJECTID
EntityFeatures(noid) ==
    [i \in Ids |->
        [objectId |-> IF i = noid THEN NULL ELSE i,
         coords |-> << <<EntityLegMetres * (i - 1), 0>>, <<EntityLegMetres * i, 0>> >>]]

\* pipeData.byObjectId built from these features
EntityGraph(fts, vel) ==
    [i \in {j \in DOMAIN fts : fts[j].objectId # NULL} |->
        [BaseFeature(i) EXCEPT
            !.coords = fts[i].coords,
            !.dir = "u_to_d",
            !.dirSource = "DIR",
            !.vHalf = vel[i],
            !.next = IF i + 1 \in DOMAIN fts /\ fts[i + 1].objectId # NULL
                     THEN <<i + 1>> ELSE <<>>]]

\* the point stands one metre north of segment k, two metres along it
SpawnAt(k) == ToUnits(<<EntityLegMetres * (k - 1) + 2, 1>>)

\* a point that has walked its route to the contact on segment k; its timer is due
AtContact(k, objectId) ==
    [RoutedPoint(NewPoint(SpawnAt(k)), <<EntityLegMetres * (k - 1) + 2, 0>>, objectId, FALSE, <<>>) EXCEPT
        !.pos = ToUnits(<<EntityLegMetres * (k - 1) + 2, 0>>), !.streetIdx = 2, !.entering = TRUE]

\* addPoint has added a point to a loaded map, or enterPipeMode is about to
\* run for a point at its contact, for every state of pipeData and of the
\* contact that the checks of enterPipeMode tell apart
InitEntity ==
    /\ variant = "dironly"
    /\ pc = "idle"
    /\ caller = "none"
    /\ startObjectId = NULL
    /\ startPoint = NoPoint
    /\ maxHops = NumSegs + 2
    /\ currentId = NULL
    /\ prevId = NULL
    /\ first = TRUE
    /\ visited = {}
    /\ visitedCells = {}
    /\ plan = <<>>
    /\ hop = 0
    /\ walk = <<>>
    /\ frames = <<>>
    /\ path = <<>>
    /\ inPath = {}
    /\ found = FALSE
    /\ targetPipeIds = {}
    /\ endpointRecords = <<>>
    /\ flowStartsByCell = <<>>
    /\ pipes = <<>>
    /\ uf = [p |-> <<>>, r |-> <<>>]
    /\ nodeIndex = <<>>
    /\ cursor = 0
    /\ phase = "first"
    /\ firstCall = NoCall
    /\ anim = NULL
    /\ second = NULL
    /\ speed10x \in BOOLEAN
    /\ \E vel \in Velocities :
        \/ \E noid \in Ids \cup {NULL}, k \in Ids :
              /\ features = EntityFeatures(noid)
              /\ byObjectId = EntityGraph(features, vel)
              /\ pipeReady = TRUE
              /\ thePoint = NewPoint(SpawnAt(k))
        \/ /\ features = <<>>
           /\ byObjectId = <<>>
           /\ pipeReady = TRUE
           /\ thePoint = NewPoint(SpawnAt(1))
        \/ \E objectId \in Ids \cup {NULL, UnknownId} :
              /\ features = EntityFeatures(NULL)
              /\ byObjectId = EntityGraph(features, vel)
              /\ pipeReady \in BOOLEAN
              /\ thePoint = AtContact(IF objectId \in Ids THEN objectId ELSE 1, objectId)

NextEntity ==
    \/ BuildStreetRouteForPoint
    \/ BuildStreetRouteReturn
    \/ StreetTick
    \/ EnterPipeMode
    \/ EnterPipeModeReturn
    \/ PipeTick
    \/ IdleTick
    \/ HopDirOnly
    \/ StopDirOnly

SpecEntity == InitEntity /\ [][NextEntity]_vars

\* the interval timer keeps ticking, the timer of enterPipeMode fires, and a
\* running call of the tracer goes on
FairEntity == SpecEntity /\ WF_vars(NextEntity)

----------------------------------------------------------------------------
(* Flush animation of the Manning build: useFlushAnimation *)

\* velocities are in mm/s, diameters and lengths in mm, slopes in parts per
\* million, Manning's n in thousandths
DEFAULT_DIAM_MM == 300
DEFAULT_SLOPE == 1000
DEFAULT_MANNING_N == 13

\* integer part of the square root and of the cube root
\* (the greatest r in lo..hi with r^k <= x, k = 2 or 3, found by bisection)
RECURSIVE IRoot(_, _, _, _)
IRoot(k, x, lo, hi) ==
    IF lo >= hi THEN lo
    ELSE LET mid == (lo + hi + 1) \div 2
         IN IF (IF k = 2 THEN mid * mid ELSE mid * mid * mid) <= x
            THEN IRoot(k, x, mid, hi)
            ELSE IRoot(k, x, lo, mid - 1)

ISqrt(x) == IRoot(2, x, 0, 46340)
ICbrt(x) == IRoot(3, x, 0, 1290)

\* manningHalfFullVelocityMps(diamMm, slope, n):
\* v = (1 / nn) * (D / 4)^(2/3) * sqrt(S), at least 0.05 m/s, with
\* (D / 4)^(2/3) = cbrt(D^2 / 16) and the roots kept to three digits
manningHalfFullVelocityMps(diamMm, slope, n) ==
    LET D == Max(50, NumOr(diamMm, DEFAULT_DIAM_MM))
        S == Max(1, NumOr(slope, DEFAULT_SLOPE))
        nn == Max(9, NumOr(n, DEFAULT_MANNING_N))
        v == (ICbrt((D * D * 125) \div 2) * ISqrt(S * 10000)) \div (nn * 100)
    IN Max(50, v)

\* the while-loop of `step`: advance across pipe boundaries; len is
\* polylineLengthM(path[idx].latlngs)
RECURSIVE AdvancePipes(_, _, _)
AdvancePipes(pth, idx, along) ==
    IF idx < Len(pth) /\ along > pth[idx + 1].len
    THEN AdvancePipes(pth, idx + 1, along - pth[idx + 1].len)
    ELSE [idx |-> idx, along |-> along]

\* one frame of the animation: `step`, for a frame dt milliseconds after the last
FlushStep ==
    /\ variant = "flush"
    /\ anim.running
    /\ \E dt \in {20, 100} :
         LET v == manningHalfFullVelocityMps(path[anim.pipeIndex + 1].diamMm,
                                             path[anim.pipeIndex + 1].slope,
                                             DEFAULT_MANNING_N)
             at == AdvancePipes(path, anim.pipeIndex, anim.alongM + (v * dt) \div 1000)
         IN anim' = IF at.idx >= Len(path)
                    THEN [anim EXCEPT !.running = FALSE, !.v = v]
                    ELSE [running |-> TRUE, pipeIndex |-> at.idx, alongM |-> at.along, v |-> v]
    /\ UNCHANGED <<byObjectId, variant, tracerVars, dfsVars, loadVars, phase, firstCall, second,
                   thePoint, pipeReady, speed10x, caller>>

\* the pipes of a path, with the attributes as getDiamMm and getSlope give
\* them: a diameter, and the default slope or any positive GRADE / SLOPE
FlushPipes ==
    [diamMm : {DEFAULT_DIAM_MM, 600}, slope : {1, DEFAULT_SLOPE, 100000}, len : {500}]

\* the effect has started the animation of a path at its first pipe
InitFlush ==
    /\ variant = "flush"
    /\ byObjectId = <<>>
    /\ pc = "done"
    /\ startObjectId = NULL
    /\ startPoint = NoPoint
    /\ maxHops = 0
    /\ currentId = NULL
    /\ prevId = NULL
    /\ first = TRUE
    /\ visited = {}
    /\ visitedCells = {}
    /\ plan = <<>>
    /\ hop = 0
    /\ walk = <<>>
    /\ frames = <<>>
    /\ inPath = {}
    /\ found = FALSE
    /\ targetPipeIds = {}
    /\ features = <<>>
    /\ endpointRecords = <<>>
    /\ flowStartsByCell = <<>>
    /\ pipes = <<>>
    /\ uf = [p |-> <<>>, r |-> <<>>]
    /\ nodeIndex = <<>>
    /\ cursor = 0
    /\ phase = "first"
    /\ firstCall = NoCall
    /\ second = NULL
    /\ thePoint = NULL
    /\ pipeReady = TRUE
    /\ speed10x = FALSE
    /\ caller = "none"
    /\ path \in [1..2 -> FlushPipes]
    /\ anim = [running |-> TRUE, pipeIndex |-> 0, alongM |-> 0, v |-> 0]

NextFlush == FlushStep

SpecFlush == InitFlush /\ [][NextFlush]_vars

----------------------------------------------------------------------------
(* Two calls of the DIR-only tracer on one network, their steps interleaved *)

\* the locals of buildPipePlanFromObjectId(id, pt, byObjectId) at its entry
NewLocals(id, pt) ==
    [ pc |-> "walking", startObjectId |-> id, startPoint |-> pt,
      currentId |-> id, prevId |-> NULL, first |-> TRUE,
      visited |-> {}, visitedCells |-> {}, plan |-> <<>>, hop |-> 0 ]

\* one iteration of the for-loop on the locals L, or the end of the loop
DirOnlyStep(g, L, cap) ==
    IF ~(L.hop < cap /\ L.currentId # NULL /\ L.currentId \notin L.visited
         /\ Has(g, L.currentId))
    THEN [L EXCEPT !.pc = "done"]
    ELSE LET ord == orderedCoordsForPipe(g, L.currentId)
             out == EmitGreedy(ord, L.first, L.startPoint, L.visitedCells, L.plan)
             seen == L.visited \cup {L.currentId}
         IN IF Len(ord) < 2
            THEN [L EXCEPT !.visited = seen, !.pc = "done"]
            ELSE [L EXCEPT
                     !.visited = seen,
                     !.plan = out.plan,
                     !.visitedCells = out.cells,
                     !.first = (L.first /\ L.startPoint = NoPoint),
                     !.currentId = chooseNextPipeDirOnly(NextObjectIds(g, L.currentId),
                                                         g, ord, L.prevId, seen),
                     !.prevId = L.currentId,
                     !.hop = L.hop + 1]

\* the call run from the locals L to its return, with nothing in between
RECURSIVE Alone(_, _, _)
Alone(g, L, cap) == IF L.pc = "done" THEN L ELSE Alone(g, DirOnlyStep(g, L, cap), cap)

\* a step of the second call if `visited` were one set shared by all calls
StepOtherSharing ==
    /\ variant = "dironly"
    /\ second.pc = "walking"
    /\ second' = DirOnlyStep(byObjectId, [second EXCEPT !.visited = visited], maxHops)
    /\ visited' = second'.visited
    /\ UNCHANGED <<byObjectId, variant, pc, startObjectId, startPoint, maxHops, currentId, prevId,
                   first, visitedCells, plan, hop, walk, dfsVars, loadVars,
                   phase, firstCall, entityVars>>

\* a step of the second call, on its own locals
StepOther ==
    /\ variant = "dironly"
    /\ second.pc = "walking"
    /\ second' = DirOnlyStep(byObjectId, second, maxHops)
    /\ UNCHANGED <<byObjectId, variant, tracerVars, dfsVars, loadVars,
                   phase, firstCall, entityVars>>

\* two calls have been made for different entries of one network
InitPair ==
    /\ variant = "dironly"
    /\ \E t \in Topologies : byObjectId = GraphOf(t, "none")
    /\ pc = "walking"
    /\ maxHops = NumSegs + 2
    /\ \E id \in Ids, pt \in EntryPoints :
          /\ startObjectId = id
          /\ startPoint = pt
          /\ currentId = id
          /\ \E id2 \in Ids \ {id}, pt2 \in EntryPoints : second = NewLocals(id2, pt2)
    /\ prevId = NULL
    /\ first = TRUE
    /\ visited = {}
    /\ visitedCells = {}
    /\ plan = <<>>
    /\ hop = 0
    /\ walk = <<>>
    /\ frames = <<>>
    /\ path = <<>>
    /\ inPath = {}
    /\ found = FALSE
    /\ targetPipeIds = {}
    /\ features = <<>>
    /\ endpointRecords = <<>>
    /\ flowStartsByCell = <<>>
    /\ pipes = <<>>
    /\ uf = [p |-> <<>>, r |-> <<>>]
    /\ nodeIndex = <<>>
    /\ cursor = 0
    /\ phase = "first"
    /\ firstCall = NoCall
    /\ thePoint = NULL
    /\ pipeReady = TRUE
    /\ speed10x = FALSE
    /\ caller = "none"
    /\ anim = NULL

NextPair == HopDirOnly \/ StopDirOnly \/ StepOther

SpecPair == InitPair /\ [][NextPair]_vars

----------------------------------------------------------------------------
(* Network build of the DIR-only build: endpoint clustering *)

MERGE_RADIUS_M == 20

\* parseDirFromProps on the raw DIR values of the model ("" is an absent DIR)
parseDirFromProps(raw) ==
    CASE raw = "u_to_d" -> "u_to_d"
      [] raw = "d_to_u" -> "d_to_u"
      [] raw = "D2U" -> "d_to_u"
      [] OTHER -> ""

\* featureEndpointsLngLat of a LineString
featureEndpointsLngLat(coords) ==
    IF Len(coords) >= 2
    THEN [start |-> coords[1], end |-> coords[Len(coords)]]
    ELSE [start |-> NoPoint, end |-> NoPoint]

\* mercatorMetersFromLngLat, in quarter metres: at the latitude of the network
\* the projection stretches a ground distance by sec(lat), taken as 5/4
mercatorMetersFromLngLat(pt) == <<5 * pt[1], 5 * pt[2]>>

\* cellKeyForMeters(m, cellSize): Math.floor of the Mercator metres over cellSize
cellKeyForMeters(m, cellSize) == <<m[1] \div (4 * cellSize), m[2] \div (4 * cellSize)>>

\* distM(i, j) <= MERGE_RADIUS_M on two endpoints
WithinMergeRadius(a, b) ==
    Dist2(mercatorMetersFromLngLat(a), mercatorMetersFromLngLat(b))
        <= (4 * MERGE_RADIUS_M) * (4 * MERGE_RADIUS_M)

\* new UF(n)
NewUF(n) == [p |-> [i \in 1..n |-> i], r |-> [i \in 1..n |-> 0]]

\* UF.find with its path halving: the root and the updated forest
RECURSIVE UFFind(_, _)
UFFind(u, x) ==
    IF u.p[x] = x THEN [uf |-> u, root |-> x]
    ELSE UFFind([u EXCEPT !.p[x] = u.p[u.p[x]]], u.p[u.p[x]])

\* the link step of UF.union on two distinct roots
UFLink(u, ra, rb) ==
    IF u.r[ra] < u.r[rb]
    THEN [u EXCEPT !.p[ra] = rb]
    ELSE [p |-> [u.p EXCEPT ![rb] = ra],
          r |-> IF u.r[ra] = u.r[rb] THEN [u.r EXCEPT ![ra] = @ + 1] ELSE u.r]

\* UF.union after the two finds
UFUnionRoots(fb, ra) == IF ra = fb.root THEN fb.uf ELSE UFLink(fb.uf, ra, fb.root)

UFUnionFrom(fa, b) == UFUnionRoots(UFFind(fa.uf, b), fa.root)

UFUnion(u, a, b) == UFUnionFrom(UFFind(u, a), b)

\* the endpoints array: entry 2k-1 is the flow start of record k, entry 2k its flow end
EndpointsOf(recs) ==
    [e \in 1..(2 * Len(recs)) |->
        IF e % 2 = 1 THEN recs[(e + 1) \div 2].upLL ELSE recs[e \div 2].downLL]

CellOf(eps, e) == cellKeyForMeters(mercatorMetersFromLngLat(eps[e]), MERGE_RADIUS_M)

\* grid.get(k): the endpoint indexes of a cell, in the order they were added
IndexesInCell(eps, k) ==
    SelectSeq([e \in 1..Len(eps) |-> e], LAMBDA e : CellOf(eps, e) = k)

\* the keys of grid in insertion order: the cell of an endpoint is listed where
\* the first endpoint of that cell stands
GridKeys(eps) ==
    LET firsts == SelectSeq([e \in 1..Len(eps) |-> e],
                      LAMBDA e : \A d \in 1..(e - 1) : CellOf(eps, d) # CellOf(eps, e))
    IN [n \in 1..Len(firsts) |-> CellOf(eps, firsts[n])]

\* (ox, oy) in the order of the two nested for-loops
NeighbourOffsets ==
    << <<0 - 1, 0 - 1>>, <<0 - 1, 0>>, <<0 - 1, 1>>,
       <<0, 0 - 1>>, <<0, 0>>, <<0, 1>>,
       <<1, 0 - 1>>, <<1, 0>>, <<1, 1>> >>

\* concatenation of a sequence of sequences
RECURSIVE Flatten(_)
Flatten(ss) == IF Len(ss) = 0 THEN <<>> ELSE Head(ss) \o Flatten(Tail(ss))

\* for (const i of idxs) for (const j of other): the pairs with j > i and
\* distM(i, j) <= MERGE_RADIUS_M, in the order of the loops
PairsOfCells(eps, idxs, other) ==
    Flatten([a \in 1..Len(idxs) |->
        SelectSeq([b \in 1..Len(other) |-> <<idxs[a], other[b]>>],
                  LAMBDA pr : pr[2] > pr[1] /\ WithinMergeRadius(eps[pr[1]], eps[pr[2]]))])

\* the loops over ox and oy for the cell k
PairsAroundCell(eps, k) ==
    Flatten([o \in 1..Len(NeighbourOffsets) |->
        PairsOfCells(eps, IndexesInCell(eps, k),
            IndexesInCell(eps, <<k[1] + NeighbourOffsets[o][1],
                                 k[2] + NeighbourOffsets[o][2]>>))])

\* for (const [k, idxs] of grid.entries()): every pair handed to uf.union
UnionPairs(eps) ==
    Flatten([n \in 1..Len(GridKeys(eps)) |-> PairsAroundCell(eps, GridKeys(eps)[n])])

RECURSIVE UnionLoop(_, _, _)
UnionLoop(u, pairs, n) ==
    IF n > Len(pairs) THEN u
    ELSE UnionLoop(UFUnion(u, pairs[n][1], pairs[n][2]), pairs, n + 1)

\* the union-find after the clustering of all endpoints
ClusterEndpoints(recs) ==
    UnionLoop(NewUF(2 * Len(recs)), UnionPairs(EndpointsOf(recs)), 1)

----------------------------------------------------------------------------
(* Network build of the DIR-only build: the passes of load *)

\* what load leaves alone: the tracer is not running, no point is on the map
tracerIdle == <<variant, startObjectId, startPoint, maxHops, currentId, prevId, first,
                visited, visitedCells, plan, hop, walk, dfsVars, phase, firstCall, second,
                thePoint, speed10x, caller, anim, flowStartsByCell, pipes>>

\* the decision if the invert levels came before the explicit DIR
ResolveDirLevelsFirst(ft) ==
    IF ft.upIL # NULL /\ ft.downIL # NULL
    THEN [dir |-> IF ft.upIL >= ft.downIL THEN "u_to_d" ELSE "d_to_u",
          dirSource |-> "IL"]
    ELSE IF parseDirFromProps(ft.DIR) # ""
         THEN [dir |-> parseDirFromProps(ft.DIR), dirSource |-> "DIR"]
         ELSE [dir |-> "u_to_d", dirSource |-> "default"]

\* `let dir = "u_to_d"; if (dirFromData) ... else if (upIL !== null && downIL !== null) ...`
ResolveDir(ft) ==
    IF parseDirFromProps(ft.DIR) # ""
    THEN [dir |-> parseDirFromProps(ft.DIR), dirSource |-> "DIR"]
    ELSE IF ft.upIL # NULL /\ ft.downIL # NULL
         THEN [dir |-> IF ft.upIL >= ft.downIL THEN "u_to_d" ELSE "d_to_u",
               dirSource |-> "IL"]
         ELSE [dir |-> "u_to_d", dirSource |-> "default"]

\* const upLL = ..., const downLL = ...: the flow-start and flow-end endpoints
FlowEndpoints(d, startLL, endLL) ==
    [ upLL   |-> IF d.dirSource = "DIR" THEN startLL
                 ELSE IF d.dir = "u_to_d" THEN startLL ELSE endLL,
      downLL |-> IF d.dirSource = "DIR" THEN endLL
                 ELSE IF d.dir = "u_to_d" THEN endLL ELSE startLL ]

\* the end of a loop over a list of length n moves on to the next pass
LoopOn(n, nextPc) ==
    IF cursor >= n
    THEN /\ pc' = nextPc
         /\ cursor' = 1
    ELSE /\ pc' = pc
         /\ cursor' = cursor + 1

\* one iteration of pass 1: direction, flow endpoints, registration
LoadPass1 ==
    /\ variant = "load"
    /\ pc = "pass1"
    /\ LET ft == features[cursor]
           ep == featureEndpointsLngLat(ft.coords)
           d == ResolveDir(ft)
           ft2 == [ft EXCEPT !.dir = d.dir, !.dirSource = d.dirSource]
           flow == FlowEndpoints(d, ep.start, ep.end)
       IN IF ~ft.hasCoordinates
          THEN \* `for (const c of g.coordinates)` throws; the catch block
               \* sets pipeData to ready: false, byObjectId: null
               /\ pc' = "failed"
               /\ byObjectId' = <<>>
               /\ UNCHANGED <<features, endpointRecords, cursor>>
          ELSE /\ features' = [features EXCEPT ![cursor] = ft2]
               /\ IF ft.objectId # NULL /\ ep.start # NoPoint /\ ep.end # NoPoint
                  THEN /\ endpointRecords' = Append(endpointRecords,
                             [ft |-> cursor, objectId |-> ft.objectId,
                              upLL |-> flow.upLL, downLL |-> flow.downLL])
                       /\ byObjectId' = (ft.objectId :> ft2) @@ byObjectId
                  ELSE UNCHANGED <<endpointRecords, byObjectId>>
               /\ LoopOn(Len(features), "cluster")
    /\ UNCHANGED <<tracerIdle, uf, nodeIndex, pipeReady>>

\* the root of x, read without changing the forest
RootOf(u, x) == UFFind(u, x).root

\* the loop of finds that builds the cluster centroids
RECURSIVE FindAllLoop(_, _)
FindAllLoop(u, i) ==
    IF i > Len(u.p) THEN u ELSE FindAllLoop(UFFind(u, i).uf, i + 1)

\* clustering of all endpoints within MERGE_RADIUS_M, and the centroid finds
LoadCluster ==
    /\ variant = "load"
    /\ pc = "cluster"
    /\ uf' = FindAllLoop(ClusterEndpoints(endpointRecords), 1)
    /\ pc' = IF Len(endpointRecords) = 0 THEN "pass2" ELSE "keys"
    /\ cursor' = 1
    /\ UNCHANGED <<tracerIdle, byObjectId, features, endpointRecords, nodeIndex, pipeReady>>

\* ensureNode(key, lng, lat); clusterKey(root) is modelled by the root itself
ensureNode(idx, key) ==
    IF key \in DOMAIN idx THEN idx
    ELSE (key :> [key |-> key, inObjectIds |-> <<>>, outObjectIds |-> <<>>]) @@ idx

\* upNode.outObjectIds.push(objectId); downNode.inObjectIds.push(objectId)
LinkNodes(idx, upK, dnK, objectId) ==
    [[ensureNode(ensureNode(idx, upK), dnK)
        EXCEPT ![upK].outObjectIds = Append(@, objectId)]
        EXCEPT ![dnK].inObjectIds = Append(@, objectId)]

\* the feature and the node index once the two roots of a record are known
KeysAssigned(r, upK, dnK, u) ==
    /\ uf' = u
    /\ features' = [features EXCEPT ![r.ft].upNodeKey = upK, ![r.ft].downNodeKey = dnK]
    /\ byObjectId' = [byObjectId EXCEPT ![r.objectId].upNodeKey = upK,
                                        ![r.objectId].downNodeKey = dnK]
    /\ nodeIndex' = LinkNodes(nodeIndex, upK, dnK, r.objectId)

AssignAfterUp(r, fu) == KeysAssigned(r, fu.root, RootOf(fu.uf, 2 * cursor),
                                     UFFind(fu.uf, 2 * cursor).uf)

\* one iteration of the loop that assigns _upNodeKey and _downNodeKey
LoadAssignKeys ==
    /\ variant = "load"
    /\ pc = "keys"
    /\ AssignAfterUp(endpointRecords[cursor], UFFind(uf, 2 * cursor - 1))
    /\ LoopOn(Len(endpointRecords), "pass2")
    /\ UNCHANGED <<tracerIdle, endpointRecords, pipeReady>>

\* downNode.outObjectIds as it stands
SuccessorsUnfiltered(outObjectIds, objectId) == outObjectIds

\* downNode.outObjectIds without the segment itself
SuccessorsAt(outObjectIds, objectId) == Filter(outObjectIds, LAMBDA id : id # objectId)

\* one iteration of pass 2: _nextObjectIds of a registered feature; after the
\* last one, setPipeData({ ready: true, geojson, ..., byObjectId })
LoadPass2 ==
    /\ variant = "load"
    /\ pc = "pass2"
    /\ LET ft == features[cursor]
           next == IF ft.downNodeKey \in DOMAIN nodeIndex
                   THEN SuccessorsAt(nodeIndex[ft.downNodeKey].outObjectIds, ft.objectId)
                   ELSE <<>>
       IN IF ft.objectId = NULL \/ ft.downNodeKey = NULL
          THEN UNCHANGED <<features, byObjectId>>
          ELSE /\ features' = [features EXCEPT ![cursor].next = next]
               /\ byObjectId' = [byObjectId EXCEPT ![ft.objectId].next = next]
    /\ LoopOn(Len(features), "loaded")
    /\ pipeReady' = (cursor >= Len(features))
    /\ UNCHANGED <<tracerIdle, endpointRecords, uf, nodeIndex>>

----------------------------------------------------------------------------
(* Hydraulic attributes of the DIR-only build: computeHalfFullVelocityMps *)

\* toNum(v) on a raw attribute: the number in a one-element list, or the
\* empty list for null (an absent attribute or a text parseFloat cannot read)
toNum(raw) == IF raw.kind = "number" THEN <<raw.val>> ELSE <<>>

\* manningNFromMaterial on the materials of the model, in thousandths
manningNFromMaterial(materialRaw) ==
    CASE materialRaw = "uPVC" -> 9
      [] materialRaw = "brick" -> 15
      [] OTHER -> 13

\* the slope if the invert levels came before GRADE
ResolveSlopeLevelsFirst(grade, upIL, downIL, len) ==
    IF upIL # <<>> /\ downIL # <<>> /\ len # <<>> /\ len[1] > 0
    THEN <<(Abs(upIL[1] - downIL[1]) * 10000) \div len[1]>>
    ELSE IF grade # <<>> THEN <<Abs(grade[1])>>
    ELSE <<>>

\* `let S = null; if (grade !== null) ... else if (...) ...`, in millionths
\* (GRADE in millionths, invert levels in cm, PIPE_LENGTH in m)
ResolveSlope(grade, upIL, downIL, len) ==
    IF grade # <<>> THEN <<Abs(grade[1])>>
    ELSE IF upIL # <<>> /\ downIL # <<>> /\ len # <<>> /\ len[1] > 0
         THEN <<(Abs(upIL[1] - downIL[1]) * 10000) \div len[1]>>
         ELSE <<>>

\* the hydraulic radius in mm, the empty list for null
HydraulicRadius(wMm, hMm) ==
    IF wMm # <<>> /\ (hMm = <<>> \/ hMm[1] = 0)
    THEN IF wMm[1] > 0 THEN <<wMm[1] \div 4>> ELSE <<>>
    ELSE LET w == IF wMm = <<>> THEN 0 ELSE wMm[1]
             h == IF hMm = <<>> THEN 0 ELSE hMm[1]
         IN IF w > 0 /\ h > 0 THEN <<(w * h) \div (2 * (w + h))>> ELSE <<>>

\* computeHalfFullVelocityMps(props): n in thousandths, S in millionths, v in
\* mm/s with v = (1 / n) * R^(2/3) * sqrt(S), the roots kept to their integer part
computeHalfFullVelocityMps(props) ==
    LET n == manningNFromMaterial(props.MATERIAL)
        S == ResolveSlope(toNum(props.GRADE), toNum(props.UPSTREAM_IL),
                          toNum(props.DOWNSTREAM_IL), toNum(props.PIPE_LENGTH))
        R == HydraulicRadius(toNum(props.PIPE_WIDTH), toNum(props.PIPE_HEIGHT))
    IN IF S = <<>> \/ S[1] <= 0 THEN [n |-> n, S |-> 0, v |-> 0]
       ELSE IF R = <<>> \/ R[1] <= 0 THEN [n |-> n, S |-> S[1], v |-> 0]
       ELSE [n |-> n, S |-> S[1],
             v |-> (ICbrt(R[1] * R[1] * 1000) * ISqrt(S[1])) \div n]

\* pass 1 of load on one feature: `const hv = computeHalfFullVelocityMps(props)`
\* and the three properties kept from it
ResolveVelocity ==
    /\ variant = "velocity"
    /\ pc = "pass1"
    /\ LET hv == computeHalfFullVelocityMps(features[cursor])
       IN features' = [features EXCEPT ![cursor].manningN = hv.n,
                                       ![cursor].slopeS = hv.S,
                                       ![cursor].vHalf = hv.v]
    /\ LoopOn(Len(features), "done")
    /\ UNCHANGED <<byObjectId, variant, startObjectId, startPoint, maxHops, currentId,
                   prevId, first, visited, visitedCells, plan, hop, walk, dfsVars,
                   callVars, endpointRecords, uf, nodeIndex, flowStartsByCell, pipes>>

----------------------------------------------------------------------------
(* Network build of the gap-bridging build: the passes of load *)

NODE_SNAP_TOL_M == 8
NODE_GAP_BRIDGE_MAX_M == 45

\* a property that load has not set
Unset == <<>>

\* nodeKeyFromLngLat(lng, lat, tolM): Math.round of the Mercator metres over tolM
nodeKeyFromLngLat(pt, tolM) ==
    << (2 * mercatorMetersFromLngLat(pt)[1] + 4 * tolM) \div (8 * tolM),
       (2 * mercatorMetersFromLngLat(pt)[2] + 4 * tolM) \div (8 * tolM) >>

\* flowCellKeyFromLngLat(lng, lat, cellSizeM): the cell key and the Mercator metres
flowCellKeyFromLngLat(pt, cellSizeM) ==
    [key |-> cellKeyForMeters(mercatorMetersFromLngLat(pt), cellSizeM),
     m   |-> mercatorMetersFromLngLat(pt)]

\* nearbyFlowCellKeys(mx, my, cellSizeM): the nine cells around the cell of m,
\* in the order of the loops over dx and dy
nearbyFlowCellKeys(m, cellSizeM) ==
    [o \in 1..Len(NeighbourOffsets) |->
        << cellKeyForMeters(m, cellSizeM)[1] + NeighbourOffsets[o][1],
           cellKeyForMeters(m, cellSizeM)[2] + NeighbourOffsets[o][2] >>]

\* flowStartsByCell.get(key) || []
FlowStartsIn(cells, key) == IF key \in DOMAIN cells THEN cells[key] ELSE <<>>

\* arr.push({ objectId, ..., mx, my }); flowStartsByCell.set(flowCell.key, arr)
PushFlowStart(cells, cell, objectId) ==
    (cell.key :> Append(FlowStartsIn(cells, cell.key), [objectId |-> objectId, m |-> cell.m]))
        @@ cells

\* dM <= NODE_GAP_BRIDGE_MAX_M, on the squares
WithinBridgeRadius(dM2) ==
    dM2 <= (4 * NODE_GAP_BRIDGE_MAX_M) * (4 * NODE_GAP_BRIDGE_MAX_M)

\* the inner loop over one cell: the entries of other segments within the radius
CandidatesInCell(arr, objectId, endM) ==
    LET near == SelectSeq(arr, LAMBDA cand :
                    cand.objectId # objectId /\ WithinBridgeRadius(Dist2(cand.m, endM)))
    IN [n \in 1..Len(near) |-> [id |-> near[n].objectId, dM2 |-> Dist2(near[n].m, endM)]]

\* the loop over nearbyFlowCellKeys: candidateIds
BridgeCandidates(cells, objectId, endM) ==
    Flatten([o \in 1..Len(NeighbourOffsets) |->
        CandidatesInCell(
            FlowStartsIn(cells, nearbyFlowCellKeys(endM, NODE_GAP_BRIDGE_MAX_M)[o]),
            objectId, endM)])

\* `let filtered = candidateIds; if (currentName) { ... if (sameName.length > 0) ... }`
SameNameFiltered(cands, g, currentName) ==
    LET sameName == SelectSeq(cands, LAMBDA cand :
                        (IF Has(g, cand.id) THEN g[cand.id].nameNorm ELSE "") = currentName)
    IN IF currentName # "" /\ Len(sameName) > 0 THEN sameName ELSE cands

\* filtered.sort((a, b) => a.dM - b.dM): a stable sort
RECURSIVE SortByDistance(_)
SortByDistance(cs) ==
    IF Len(cs) = 0 THEN <<>>
    ELSE LET sorted == SortByDistance(SubSeq(cs, 1, Len(cs) - 1))
             c == cs[Len(cs)]
         IN SelectSeq(sorted, LAMBDA x : x.dM2 <= c.dM2)
            \o <<c>>
            \o SelectSeq(sorted, LAMBDA x : x.dM2 > c.dM2)

\* Array.from(new Set(filtered.slice(0, 3).map((x) => x.id)))
FirstThreeIds(cs) ==
    LET ids == [n \in 1..Min(3, Len(cs)) |-> cs[n].id]
        kept == SelectSeq([n \in 1..Len(ids) |-> n],
                          LAMBDA n : \A k \in 1..(n - 1) : ids[k] # ids[n])
    IN [n \in 1..Len(kept) |-> ids[kept[n]]]

\* one iteration of pass 1: direction from DIR alone, flow endpoints, node keys
\* by snapping, registration in nodeIndex, byObjectId and flowStartsByCell
BridgePass1 ==
    /\ variant = "bridge"
    /\ pc = "pass1"
    /\ LET ft == features[cursor]
           ep == featureEndpointsLngLat(ft.coords)
           dir == IF parseDirFromProps(ft.DIR) # "" THEN parseDirFromProps(ft.DIR)
                  ELSE "u_to_d"
           flowStart == IF dir = "u_to_d" THEN ep.start ELSE ep.end
           flowEnd == IF dir = "u_to_d" THEN ep.end ELSE ep.start
           ft2 == [ft EXCEPT !.dir = dir,
                             !.dirSource = IF parseDirFromProps(ft.DIR) # "" THEN "DIR"
                                           ELSE "default",
                             !.nameNorm = normaliseSewerName(ft.name)]
       IN IF ft.objectId # NULL /\ ep.start # NoPoint /\ ep.end # NoPoint
          THEN LET ft3 == [ft2 EXCEPT
                              !.flowStartLL = flowStart,
                              !.flowEndLL = flowEnd,
                              !.upNodeKey = nodeKeyFromLngLat(flowStart, NODE_SNAP_TOL_M),
                              !.downNodeKey = nodeKeyFromLngLat(flowEnd, NODE_SNAP_TOL_M)]
               IN /\ features' = [features EXCEPT ![cursor] = ft3]
                  /\ nodeIndex' = LinkNodes(nodeIndex, ft3.upNodeKey, ft3.downNodeKey,
                                            ft.objectId)
                  /\ byObjectId' = (ft.objectId :> ft3) @@ byObjectId
                  /\ flowStartsByCell' =
                        PushFlowStart(flowStartsByCell,
                            flowCellKeyFromLngLat(flowStart, NODE_GAP_BRIDGE_MAX_M),
                            ft.objectId)
          ELSE /\ features' = [features EXCEPT ![cursor] = ft2]
               /\ UNCHANGED <<nodeIndex, byObjectId, flowStartsByCell>>
    /\ LoopOn(Len(features), "pass2")
    /\ UNCHANGED <<variant, startObjectId, startPoint, maxHops, currentId, prevId, first,
                   visited, visitedCells, plan, hop, walk, dfsVars, callVars,
                   endpointRecords, uf, pipes>>

\* the successor list of a segment with the flow end endLL: the node-matched
\* list, or the bridged one when that is empty and candidates are near
BridgedNext(matched, cands, g, ft) ==
    IF Len(matched) = 0 /\ ft.flowEndLL # Unset /\ Len(cands) > 0
    THEN [next |-> FirstThreeIds(SortByDistance(SameNameFiltered(cands, g, ft.nameNorm))),
          viaGapBridge |-> TRUE]
    ELSE [next |-> matched, viaGapBridge |-> ft.viaGapBridge]

\* one iteration of pass 2: _nextObjectIds by node match, bridged over a gap
\* when the node match finds nothing; after the last one, setPipeData
BridgePass2 ==
    /\ variant = "bridge"
    /\ pc = "pass2"
    /\ LET ft == features[cursor]
       IN IF ft.objectId = NULL \/ ft.downNodeKey = Unset
          THEN UNCHANGED <<features, byObjectId>>
          ELSE LET r == BridgedNext(
                            IF ft.downNodeKey \in DOMAIN nodeIndex
                            THEN SuccessorsAt(nodeIndex[ft.downNodeKey].outObjectIds,
                                              ft.objectId)
                            ELSE <<>>,
                            IF ft.flowEndLL # Unset
                            THEN BridgeCandidates(flowStartsByCell, ft.objectId,
                                     mercatorMetersFromLngLat(ft.flowEndLL))
                            ELSE <<>>,
                            byObjectId, ft)
               IN /\ features' = [features EXCEPT ![cursor].next = r.next,
                                                  ![cursor].viaGapBridge = r.viaGapBridge]
                  /\ byObjectId' = [byObjectId EXCEPT
                                        ![ft.objectId].next = r.next,
                                        ![ft.objectId].viaGapBridge = r.viaGapBridge]
    /\ LoopOn(Len(features), "loaded")
    /\ pipeReady' = (cursor >= Len(features))
    /\ UNCHANGED <<variant, startObjectId, startPoint, maxHops, currentId, prevId, first,
                   visited, visitedCells, plan, hop, walk, dfsVars, phase, firstCall,
                   second, thePoint, speed10x, caller, anim,
                   endpointRecords, uf, nodeIndex, flowStartsByCell, pipes>>

----------------------------------------------------------------------------
(* Network build of the Manning build: buildPipeRecords *)

\* in metres; the model takes its multiples by 4 in quarter metres
NODE_TOL_METERS == 2

\* makeNodeIndex(): the ids N1, N2, ... are modelled by their numbers
makeNodeIndex == [buckets |-> <<>>, nextId |-> 1]

\* bucketKeyProjected(ll, tolM): Math.round of the projected metres over tolM
bucketKeyProjected(ll, tolM) == nodeKeyFromLngLat(ll, tolM)

\* distMetersProjected(a, b) <= tolM, on the squares
WithinTolProjected(a, b, tolM) ==
    Dist2(mercatorMetersFromLngLat(a), mercatorMetersFromLngLat(b))
        <= (4 * tolM) * (4 * tolM)

\* getBucket(index, key), without the insertion of the empty array
getBucket(index, key) == IF key \in DOMAIN index.buckets THEN index.buckets[key] ELSE <<>>

\* nodeIdFor(ll, index, tolM): the id returned and the index it leaves
nodeIdFor(ll, index, tolM) ==
    LET key == bucketKeyProjected(ll, tolM)
        hits == SelectSeq(getBucket(index, key), LAMBDA n : WithinTolProjected(n.ll, ll, tolM))
    IN IF Len(hits) > 0
       THEN [id |-> hits[1].id,
             index |-> [index EXCEPT !.buckets = (key :> getBucket(index, key)) @@ @]]
       ELSE [id |-> index.nextId,
             index |-> [buckets |-> (key :> Append(getBucket(index, key),
                                                   [id |-> index.nextId, ll |-> ll]))
                                        @@ index.buckets,
                        nextId |-> index.nextId + 1]]

\* the polyline flipped when the upstream invert level is below the downstream one
Oriented(f) ==
    IF f.upIL # NULL /\ f.downIL # NULL /\ f.upIL < f.downIL THEN Reverse(f.coords)
    ELSE f.coords

\* the adjacency built after the loop: node -> indexes of the outgoing pipes
outByNode(ps) ==
    [n \in {ps[k].upNode : k \in 1..Len(ps)} |->
        SelectSeq([k \in 1..Len(ps) |-> k], LAMBDA k : ps[k].upNode = n)]

\* one iteration of the loop over features (a LineString has one part): the
\* two nodeIdFor calls and pipes.push
BuildPipeRecord ==
    /\ variant = "records"
    /\ pc = "building"
    /\ LET f == features[cursor]
           oriented == Oriented(f)
           upN == nodeIdFor(oriented[1], nodeIndex, NODE_TOL_METERS)
           dnN == nodeIdFor(oriented[Len(oriented)], upN.index, NODE_TOL_METERS)
       IN IF Len(f.coords) < 2
          THEN UNCHANGED <<nodeIndex, pipes>>
          ELSE /\ nodeIndex' = dnN.index
               /\ pipes' = Append(pipes, [objectId |-> f.objectId,
                                          upIL |-> f.upIL, downIL |-> f.downIL,
                                          latlngs |-> oriented,
                                          upNode |-> upN.id, dnNode |-> dnN.id])
    /\ LoopOn(Len(features), "built")
    /\ UNCHANGED <<byObjectId, variant, startObjectId, startPoint, maxHops, currentId,
                   prevId, first, visited, visitedCells, plan, hop, walk, dfsVars,
                   callVars, features, endpointRecords, uf, flowStartsByCell>>

----------------------------------------------------------------------------
(* Files given to load *)

\* DIR and invert levels of a feature: an explicit DIR either way, invert
\* levels that rise or fall along the geometry under a missing or unreadable
\* DIR, and nothing at all
DirKinds ==
    { [DIR |-> "u_to_d", upIL |-> 510, downIL |-> 500],
      [DIR |-> "D2U", upIL |-> NULL, downIL |-> NULL],
      [DIR |-> "north", upIL |-> 400, downIL |-> 500],
      [DIR |-> "", upIL |-> 510, downIL |-> 500],
      [DIR |-> "", upIL |-> NULL, downIL |-> NULL] }

Layouts == {"chain", "gaps", "wide", "fork", "short", "bridge"}

\* the polyline of feature i: a chain with shared endpoints, with gaps of 15 m
\* and of 17 m, a fork, a chain led by a 10 m pipe, and endpoints 15 m apart
\* in a row
LayoutCoords(layout, i) ==
    CASE layout = "chain" -> << <<100 * (i - 1), 0>>, <<100 * i, 0>> >>
      [] layout = "gaps" -> << <<100 * (i - 1), 0>>, <<100 * i - 15, 0>> >>
      [] layout = "wide" -> << <<100 * (i - 1), 0>>, <<100 * i - 17, 0>> >>
      [] layout = "fork" ->
            IF i = 1 THEN << <<0, 0>>, <<100, 0>> >>
            ELSE << <<100, 0>>, <<100 * i, 100 * (i - 2)>> >>
      [] layout = "short" ->
            IF i = 1 THEN << <<0, 0>>, <<10, 0>> >>
            ELSE << <<100 * (i - 2) + 10, 0>>, <<100 * (i - 1) + 10, 0>> >>
      [] layout = "bridge" ->
            IF i = 1 THEN << <<0 - 100, 0>>, <<0, 0>> >>
            ELSE << <<15 * (i - 1), 0>>, <<15 * (i - 1), 100 * i>> >>

FileDefects == {"none", "noid", "short", "nocoords"}

\* feature i as parsed from the file; feature 2 may lack its OBJECTID, have a
\* single coordinate, or have a geometry without its `coordinates` array
RawFeature(layout, kind, defect, i) ==
    [ objectId    |-> IF defect = "noid" /\ i = 2 THEN NULL ELSE i,
      hasCoordinates |-> ~(defect = "nocoords" /\ i = 2),
      DIR         |-> kind.DIR,
      upIL        |-> kind.upIL,
      upNodeKey   |-> NULL,
      downNodeKey |-> NULL ]
    @@ [BaseFeature(i) EXCEPT
            !.coords = IF defect = "short" /\ i = 2
                       THEN <<LayoutCoords(layout, i)[1]>>
                       ELSE IF defect = "nocoords" /\ i = 2 THEN <<>>
                       ELSE LayoutCoords(layout, i),
            !.downIL = kind.downIL,
            !.dir = "",
            !.dirSource = ""]

\* state when load has fetched and parsed the file with the features fts
LoadStart(fts) ==
    /\ features = fts
    /\ byObjectId = <<>>
    /\ endpointRecords = <<>>
    /\ flowStartsByCell = <<>>
    /\ pipes = <<>>
    /\ uf = NewUF(0)
    /\ nodeIndex = <<>>
    /\ cursor = 1
    /\ variant = "load"
    /\ pc = "pass1"
    /\ startObjectId = NULL
    /\ startPoint = NoPoint
    /\ maxHops = 0
    /\ currentId = NULL
    /\ prevId = NULL
    /\ first = TRUE
    /\ visited = {}
    /\ visitedCells = {}
    /\ plan = <<>>
    /\ hop = 0
    /\ walk = <<>>
    /\ frames = <<>>
    /\ path = <<>>
    /\ inPath = {}
    /\ found = FALSE
    /\ targetPipeIds = {}
    /\ phase = "first"
    /\ firstCall = NoCall
    /\ second = NULL
    /\ thePoint = NULL
    /\ pipeReady = FALSE
    /\ speed10x = FALSE
    /\ caller = "none"
    /\ anim = NULL

InitLoad ==
    \E layout \in Layouts, kinds \in [Ids -> DirKinds], defect \in FileDefects :
        LoadStart([i \in Ids |-> RawFeature(layout, kinds[i], defect, i)])

NextLoad == LoadPass1 \/ LoadCluster \/ LoadAssignKeys \/ LoadPass2

SpecLoad == InitLoad /\ [][NextLoad]_vars

----------------------------------------------------------------------------
(* Files given to load for the direction decision *)

\* DIR and invert levels of a feature: an explicit DIR against the invert
\* levels or without them, an unreadable DIR, and no DIR, each with rising,
\* falling, equal or missing invert levels
DecisionKinds ==
    { [DIR |-> "d_to_u", upIL |-> 510, downIL |-> 500],
      [DIR |-> "D2U", upIL |-> NULL, downIL |-> NULL],
      [DIR |-> "u_to_d", upIL |-> 400, downIL |-> 500],
      [DIR |-> "north", upIL |-> 400, downIL |-> 500],
      [DIR |-> "north", upIL |-> NULL, downIL |-> 500],
      [DIR |-> "", upIL |-> 500, downIL |-> 500],
      [DIR |-> "", upIL |-> 510, downIL |-> NULL],
      [DIR |-> "", upIL |-> 400, downIL |-> 500] }

InitDirection ==
    \E kinds \in [Ids -> DecisionKinds], defect \in FileDefects :
        LoadStart([i \in Ids |-> RawFeature("chain", kinds[i], defect, i)])

NextDirection == LoadPass1 \/ LoadCluster \/ LoadAssignKeys \/ LoadPass2

SpecDirection == InitDirection /\ [][NextDirection]_vars

----------------------------------------------------------------------------
(* Files given to load of the gap-bridging build *)

BridgeSegs == 5

\* where a segment after the first starts, in metres from the flow end of the
\* first: on it, 12 m east, 12 m south, 28 m east, 40 m east
StartOffsets == { <<0, 0>>, <<12, 0>>, <<0, 0 - 12>>, <<28, 0>>, <<40, 0>> }

\* feature i as parsed from the file: the first runs 100 m east to the origin,
\* the others leave from their offset to ends a kilometre apart
BridgeFeature(i, off, nm) ==
    [ objectId     |-> i,
      coords       |-> IF i = 1 THEN << <<0 - 100, 0>>, <<0, 0>> >>
                       ELSE << off, <<off[1] + 1000 * i, off[2] + 1000>> >>,
      DIR          |-> "",
      name         |-> nm,
      dir          |-> "",
      dirSource    |-> "",
      nameNorm     |-> "",
      flowStartLL  |-> Unset,
      flowEndLL    |-> Unset,
      upNodeKey    |-> Unset,
      downNodeKey  |-> Unset,
      next         |-> <<>>,
      viaGapBridge |-> FALSE ]

InitBridge ==
    \E offs \in [2..BridgeSegs -> StartOffsets],
       nms \in [2..BridgeSegs -> {"Main St.", "SIDE"}],
       own \in {"MAIN ST", ""} :
        /\ features = [i \in 1..BridgeSegs |->
                          IF i = 1 THEN BridgeFeature(1, <<0, 0>>, own)
                          ELSE BridgeFeature(i, offs[i], nms[i])]
        /\ byObjectId = <<>>
        /\ endpointRecords = <<>>
        /\ flowStartsByCell = <<>>
        /\ pipes = <<>>
    /\ pipes = <<>>
        /\ uf = NewUF(0)
        /\ nodeIndex = <<>>
        /\ cursor = 1
        /\ variant = "bridge"
        /\ pc = "pass1"
        /\ startObjectId = NULL
        /\ startPoint = NoPoint
        /\ maxHops = 0
        /\ currentId = NULL
        /\ prevId = NULL
        /\ first = TRUE
        /\ visited = {}
        /\ visitedCells = {}
        /\ plan = <<>>
        /\ hop = 0
        /\ walk = <<>>
        /\ frames = <<>>
        /\ path = <<>>
        /\ inPath = {}
        /\ found = FALSE
        /\ targetPipeIds = {}
        /\ phase = "first"
        /\ firstCall = NoCall
        /\ second = NULL
        /\ thePoint = NULL
        /\ pipeReady = FALSE
        /\ speed10x = FALSE
        /\ caller = "none"
        /\ anim = NULL

NextBridge == BridgePass1 \/ BridgePass2

SpecBridge == InitBridge /\ [][NextBridge]_vars

----------------------------------------------------------------------------
(* Files given to buildPipeRecords *)

\* the endpoints of a polyline, in metres on the ground: three points 1 m
\* apart in a row and a far one
RecordEnds == { <<0, 0>>, <<1, 0>>, <<2, 0>>, <<100, 0>> }

\* the invert levels: none, falling and rising along the geometry
RecordLevels ==
    { [upIL |-> NULL, downIL |-> NULL],
      [upIL |-> 510, downIL |-> 500],
      [upIL |-> 400, downIL |-> 500] }

InitRecords ==
    \E ends \in [Ids -> {e \in RecordEnds \X RecordEnds : e[1] # e[2]}],
       lv \in [Ids -> RecordLevels] :
        /\ features = [i \in Ids |->
                          [objectId |-> i, coords |-> <<ends[i][1], ends[i][2]>>,
                           upIL |-> lv[i].upIL, downIL |-> lv[i].downIL]]
        /\ byObjectId = <<>>
        /\ endpointRecords = <<>>
        /\ flowStartsByCell = <<>>
        /\ pipes = <<>>
        /\ uf = NewUF(0)
        /\ nodeIndex = makeNodeIndex
        /\ cursor = 1
        /\ variant = "records"
        /\ pc = "building"
        /\ startObjectId = NULL
        /\ startPoint = NoPoint
        /\ maxHops = 0
        /\ currentId = NULL
        /\ prevId = NULL
        /\ first = TRUE
        /\ visited = {}
        /\ visitedCells = {}
        /\ plan = <<>>
        /\ hop = 0
        /\ walk = <<>>
        /\ frames = <<>>
        /\ path = <<>>
        /\ inPath = {}
        /\ found = FALSE
        /\ targetPipeIds = {}
        /\ phase = "first"
        /\ firstCall = NoCall
        /\ second = NULL
        /\ thePoint = NULL
        /\ pipeReady = FALSE
        /\ speed10x = FALSE
        /\ caller = "none"
        /\ anim = NULL

NextRecords == BuildPipeRecord

SpecRecords == InitRecords /\ [][NextRecords]_vars

----------------------------------------------------------------------------
(* Attribute bags given to computeHalfFullVelocityMps *)

Missing == [kind |-> "absent", val |-> 0]
Unreadable == [kind |-> "text", val |-> 0]
Num(x) == [kind |-> "number", val |-> x]

\* GRADE in millionths
RawGrades == {Missing, Unreadable, Num(0), Num(5000), Num(0 - 5000)}

\* UPSTREAM_IL and DOWNSTREAM_IL in cm
RawLevels ==
    { <<Missing, Missing>>, <<Num(510), Num(500)>>, <<Num(400), Num(500)>>,
      <<Num(500), Num(500)>>, <<Num(510), Unreadable>> }

\* PIPE_LENGTH in m
RawLengths == {Missing, Num(0), Num(10)}

\* PIPE_WIDTH and PIPE_HEIGHT in mm
RawWidths == {Missing, Num(0), Num(0 - 300), Num(300)}
RawHeights == {Missing, Num(0), Num(0 - 600), Num(600)}

InitVelocity ==
    \E grade \in RawGrades, lv \in RawLevels, len \in RawLengths, w \in RawWidths,
       h \in RawHeights, material \in {"", "uPVC", "brick"} :
        /\ features = << [ MATERIAL |-> material, GRADE |-> grade,
                           UPSTREAM_IL |-> lv[1], DOWNSTREAM_IL |-> lv[2],
                           PIPE_LENGTH |-> len, PIPE_WIDTH |-> w, PIPE_HEIGHT |-> h,
                           manningN |-> 0, slopeS |-> 0, vHalf |-> 0 - 1 ] >>
        /\ byObjectId = <<>>
        /\ endpointRecords = <<>>
        /\ flowStartsByCell = <<>>
        /\ pipes = <<>>
        /\ uf = NewUF(0)
        /\ nodeIndex = <<>>
        /\ cursor = 1
        /\ variant = "velocity"
        /\ pc = "pass1"
        /\ startObjectId = NULL
        /\ startPoint = NoPoint
        /\ maxHops = 0
        /\ currentId = NULL
        /\ prevId = NULL
        /\ first = TRUE
        /\ visited = {}
        /\ visitedCells = {}
        /\ plan = <<>>
        /\ hop = 0
        /\ walk = <<>>
        /\ frames = <<>>
        /\ path = <<>>
        /\ inPath = {}
        /\ found = FALSE
        /\ targetPipeIds = {}
        /\ phase = "first"
        /\ firstCall = NoCall
        /\ second = NULL
        /\ thePoint = NULL
        /\ pipeReady = FALSE
        /\ speed10x = FALSE
        /\ caller = "none"
        /\ anim = NULL

NextVelocity == ResolveVelocity

SpecVelocity == InitVelocity /\ [][NextVelocity]_vars

----------------------------------------------------------------------------
(* Properties of the greedy tracers *)

\* C1: the greedy walk (DIR-only and lookahead) makes at most maxHops
\* iterations and emits at most maxHops segments, all of them registered and
\* distinct, so at most as many as the graph has; every iteration either counts
\* one more hop or ends the walk
C1_GreedyWalkBounded ==
    /\ hop <= maxHops
    /\ Len(walk) = hop
    /\ Cardinality(visited) <= maxHops
    /\ Range(walk) \subseteq DOMAIN byObjectId
    /\ Len(walk) <= Cardinality(DOMAIN byObjectId)
    /\ pc \in {"walking", "done"}

\* the cap, not the graph, ends a walk that had an unvisited successor to go to
C1_CapReached ==
    /\ pc = "done"
    /\ Len(walk) = maxHops
    /\ currentId # NULL
    /\ currentId \notin visited
    /\ Has(byObjectId, currentId)

\* the emitted segments are pairwise distinct
NoRepeat(w) == \A i, j \in 1..Len(w) : w[i] = w[j] => i = j

\* a step taken with the resolved successor already visited ends the walk
\* and emits nothing
StopsOnLoopClosure ==
    (pc = "walking" /\ currentId \in visited) =>
        (pc' = "done" /\ plan' = plan /\ walk' = walk /\ visited' = visited)

\* C9: no segment is emitted twice, and the walk stops as soon as the resolved
\* successor is in the visited set
C9_CycleSafe == [](NoRepeat(walk) /\ Range(walk) \subseteq visited) /\ [][StopsOnLoopClosure]_vars

\* a walk went all the way round a cycle and stopped on re-entering it
C9_LoopClosed ==
    /\ pc = "done"
    /\ Len(walk) >= 2
    /\ currentId = walk[1]
    /\ Cardinality(visited) < maxHops

----------------------------------------------------------------------------
(* Properties of the DFS tracer *)

\* C2: the while-loop of the DFS tracer makes at most maxSteps iterations
\* (pushes, skips and backtracks counted together)
C2_StepCapBoundsIterations == variant = "dfs" => hop <= maxHops

\* the ids that a chain of _nextObjectIds links leads to from the ids of S
RECURSIVE ReachableFrom(_, _)
ReachableFrom(g, S) ==
    LET S2 == S \cup UNION {Range(NextObjectIds(g, s)) : s \in S}
    IN IF S2 = S THEN S ELSE ReachableFrom(g, S2)

\* C4: when the DFS tracer returns from a registered entry segment with at least
\* two coordinates and no target is reachable from it, the plan is not empty:
\* it traces a path that begins with the entry segment, and begins with the
\* entry point when one is given
C4_PartialPlanReturned ==
    ( /\ variant = "dfs"
      /\ pc = "done"
      /\ Has(byObjectId, startObjectId)
      /\ Len(flattenFeatureCoords(byObjectId, startObjectId)) >= 2
      /\ ReachableFrom(byObjectId, {startObjectId}) \cap targetPipeIds = {} )
    => ( /\ Len(plan) > 0
         /\ Len(walk) > 0
         /\ walk[1] = startObjectId
         /\ startPoint # NoPoint => plan[1] = startPoint )

----------------------------------------------------------------------------
(* Properties of the network build *)

\* the node keys given to the endpoints that lie at the point pt
KeysAt(pt) ==
    {RootOf(uf, e) : e \in {d \in 1..(2 * Len(endpointRecords)) :
                                EndpointsOf(endpointRecords)[d] = pt}}

\* C3: after the build, the coordinates that orderedCoordsForPipe emits for a
\* registered segment begin at an endpoint keyed as its _upNodeKey and end at
\* an endpoint keyed as its _downNodeKey, whatever the direction and its source
C3_FlowCoordsMatchNodeKeys ==
    (variant = "load" /\ pc = "loaded") =>
        \A id \in DOMAIN byObjectId :
            /\ byObjectId[id].upNodeKey
                   \in KeysAt(orderedCoordsForPipe(byObjectId, id)[1])
            /\ byObjectId[id].downNodeKey
                   \in KeysAt(orderedCoordsForPipe(byObjectId, id)[
                                  Len(orderedCoordsForPipe(byObjectId, id))])

\* C10: after the build, for registered segments s and t, t is listed in
\* s._nextObjectIds exactly when t is not s and the flow-start node key of t is
\* the flow-end node key of s; only registered segments are listed
C10_SuccessorsAreFlowEndMatches ==
    (variant = "load" /\ pc = "loaded") =>
        \A s \in DOMAIN byObjectId :
            /\ Range(byObjectId[s].next) \subseteq DOMAIN byObjectId
            /\ \A t \in DOMAIN byObjectId :
                   t \in Range(byObjectId[s].next)
                       <=> (t # s /\ byObjectId[t].upNodeKey = byObjectId[s].downNodeKey)

\* a segment whose two ends fell into one cluster, so that its own node lists
\* it, and which has a successor at that node
C10_OwnNodeListsSegment ==
    /\ variant = "load"
    /\ pc = "loaded"
    /\ \E s \in DOMAIN byObjectId :
           /\ byObjectId[s].upNodeKey = byObjectId[s].downNodeKey
           /\ Len(byObjectId[s].next) > 0

\* ground distance of two points of the model at most MERGE_RADIUS_M metres
WithinRadiusOnGround(a, b) == Dist2(a, b) <= MERGE_RADIUS_M * MERGE_RADIUS_M

\* C11: after the build, any two endpoints at most MERGE_RADIUS_M metres apart
\* have the same cluster root, and a registered segment whose flow end lies
\* that close to another registered segment's flow start lists that segment
\* among its successors
C11_EndpointsWithinRadiusShareNode ==
    (variant = "load" /\ pc = "loaded") =>
        /\ \A d, e \in 1..(2 * Len(endpointRecords)) :
               WithinRadiusOnGround(EndpointsOf(endpointRecords)[d],
                                    EndpointsOf(endpointRecords)[e])
                   => RootOf(uf, d) = RootOf(uf, e)
        /\ \A r, q \in 1..Len(endpointRecords) :
               ( /\ endpointRecords[r].objectId # endpointRecords[q].objectId
                 /\ WithinRadiusOnGround(endpointRecords[r].downLL,
                                         endpointRecords[q].upLL) )
               => endpointRecords[q].objectId
                      \in Range(byObjectId[endpointRecords[r].objectId].next)

----------------------------------------------------------------------------
(* Properties of the chain scenario *)

\* segment i leads to segment i + 1 alone, up to the last segment
IsChain ==
    /\ variant = "dironly"
    /\ startObjectId = 1
    /\ startPoint # NoPoint
    /\ DOMAIN byObjectId = Ids
    /\ \A i \in Ids :
          /\ byObjectId[i].next = (IF i < NumSegs THEN <<i + 1>> ELSE <<>>)
          /\ byObjectId[i].name = ""
          /\ byObjectId[i].downIL = NULL
          /\ Len(orderedCoordsForPipe(byObjectId, i)) >= 2
    /\ \A i \in 1..(NumSegs - 1) :
          orderedCoordsForPipe(byObjectId, i)[Len(orderedCoordsForPipe(byObjectId, i))]
              = orderedCoordsForPipe(byObjectId, i + 1)[1]

\* the flow coordinates of segments i..NumSegs, each after the first without
\* its first vertex (the join with the segment before it)
RECURSIVE ChainTail(_)
ChainTail(i) ==
    IF i > NumSegs THEN <<>>
    ELSE Tail(orderedCoordsForPipe(byObjectId, i)) \o ChainTail(i + 1)

\* the first index of ord at the least distance from the point sp
NearestVertex(ord, sp) ==
    CHOOSE k \in 1..Len(ord) :
        /\ \A j \in 1..Len(ord) : Dist2(sp, ord[k]) <= Dist2(sp, ord[j])
        /\ \A j \in 1..(k - 1) : Dist2(sp, ord[k]) < Dist2(sp, ord[j])

\* the entry point, the first segment from its vertex nearest the entry point,
\* then the other segments in order, join duplicates removed
ChainPlan ==
    LET ord == orderedCoordsForPipe(byObjectId, 1)
    IN <<startPoint>>
       \o SubSeq(ord, NearestVertex(ord, startPoint), Len(ord))
       \o ChainTail(2)

CellsDistinct(pl) ==
    \A i, j \in 2..Len(pl) : i # j => gridKey(pl[i]) # gridKey(pl[j])

----------------------------------------------------------------------------
(* Properties of sessions *)

----------------------------------------------------------------------------
(* Properties of the successor resolution of the lookahead build *)

\* a hop has been made: currentId is the successor resolved for ForkCur
AtFork == variant = "lookahead" /\ pc = "walking" /\ Len(walk) >= 1

ForkCur == walk[Len(walk)]
ForkPrev == IF Len(walk) >= 2 THEN walk[Len(walk) - 1] ELSE NULL
ForkCandidates == NextObjectIds(byObjectId, ForkCur)

\* the candidates are exactly two, neither the previous segment nor visited
TwoEligible ==
    /\ Len(ForkCandidates) = 2
    /\ ForkCandidates[1] # ForkCandidates[2]
    /\ \A k \in 1..2 : ForkCandidates[k] # ForkPrev /\ ForkCandidates[k] \notin visited

SharesName(id) ==
    /\ normaliseSewerName(SewerName(byObjectId, id)) # ""
    /\ normaliseSewerName(SewerName(byObjectId, id))
           = normaliseSewerName(SewerName(byObjectId, ForkCur))

\* C6: at a fork with two eligible candidates of which exactly one shares the
\* current segment's normalised sewer name, the same-named candidate is the
\* successor that is resolved
C6_SameNamedCandidateChosen ==
    (AtFork /\ TwoEligible) =>
        \A k \in 1..2 :
            (SharesName(ForkCandidates[k]) /\ ~SharesName(ForkCandidates[3 - k]))
                => currentId = ForkCandidates[k]

\* the network with the DOWNSTREAM_IL of the segments in S absent
WithoutLevels(g, S) ==
    [i \in DOMAIN g |-> IF i \in S THEN [g[i] EXCEPT !.downIL = NULL] ELSE g[i]]

DirSourced(g) == {i \in DOMAIN g : g[i].dirSource = "DIR"}

\* the successor resolved for ForkCur on the network g
ResolvedOn(g) ==
    ResolveNextLookahead(g, ForkCur, orderedCoordsForPipe(g, ForkCur), ForkPrev, visited)

\* C7 as stated: when the current segment's direction source is DIR, the
\* successor resolved is the one resolved with every invert level absent
C7_ChoiceIgnoresAllLevels ==
    (AtFork /\ DirSource(byObjectId, ForkCur) = "DIR") =>
        currentId = ResolvedOn(WithoutLevels(byObjectId, DOMAIN byObjectId))

\* C7 amended: when the current segment's direction source is DIR, no eligible
\* candidate is removed by the downhill filter, and the successor resolved is
\* the one resolved with the invert levels of the current segment and of every
\* DIR-sourced segment absent
C7_ChoiceIgnoresDirLevels ==
    (AtFork /\ DirSource(byObjectId, ForkCur) = "DIR") =>
        /\ LET ids == EligibleLookahead(ForkCandidates, ForkPrev, visited)
           IN DownhillOrAll(ids, byObjectId, ForkCur) = ids
        /\ currentId = ResolvedOn(WithoutLevels(byObjectId, DirSourced(byObjectId)))

\* a DIR-sourced segment was left for the candidate whose DOWNSTREAM_IL is
\* above its own and above the other candidate's
C7_HigherCandidateChosen ==
    /\ AtFork
    /\ TwoEligible
    /\ DirSource(byObjectId, ForkCur) = "DIR"
    /\ DownIL(byObjectId, ForkCur) # NULL
    /\ \E k \in 1..2 :
          /\ currentId = ForkCandidates[k]
          /\ DownIL(byObjectId, ForkCandidates[3 - k]) # NULL
          /\ DownIL(byObjectId, currentId) # NULL
          /\ DownIL(byObjectId, currentId) > DownIL(byObjectId, ForkCur) + DownhillTolCm
          /\ DownIL(byObjectId, currentId) > DownIL(byObjectId, ForkCandidates[3 - k])

\* the fork of the scenario: candidates b (DOWNSTREAM_IL 5 m) and c (3 m), no
\* names, all three IL-sourced
ScenarioFork(b, c) ==
    /\ AtFork
    /\ Range(ForkCandidates) = {b, c}
    /\ Len(ForkCandidates) = 2
    /\ DownIL(byObjectId, b) = 500
    /\ DownIL(byObjectId, c) = 300
    /\ \A i \in {ForkCur, b, c} :
          SewerName(byObjectId, i) = "" /\ DirSource(byObjectId, i) = "IL"

\* C8 as stated: in the scenario fork the successor resolved is c, whatever
\* the current segment's invert level and the onward links of b and c
C8_LowerCandidateChosen ==
    \A b, c \in DOMAIN byObjectId : ScenarioFork(b, c) => currentId = c

DeadEnd(id) == Len(NextObjectIds(byObjectId, id)) = 0

\* only c passes the downhill filter of the current segment
OnlyDownhill(b, c) ==
    /\ DownIL(byObjectId, c) <= DownIL(byObjectId, ForkCur) + DownhillTolCm
    /\ DownIL(byObjectId, b) > DownIL(byObjectId, ForkCur) + DownhillTolCm

\* C8 amended: in the scenario fork with both candidates eligible the successor
\* resolved is c when b and c have no onward links, or when c alone is not
\* above the current segment's DOWNSTREAM_IL by more than the tolerance
C8_LowerChosenWithoutLookahead ==
    \A b, c \in DOMAIN byObjectId :
        ( /\ ScenarioFork(b, c)
          /\ TwoEligible
          /\ (DeadEnd(b) /\ DeadEnd(c)) \/ OnlyDownhill(b, c) )
        => currentId = c

\* the scenario fork was resolved to c between two dead ends, b listed first
C8_DeadEndForkResolved ==
    /\ AtFork
    /\ Len(ForkCandidates) = 2
    /\ ScenarioFork(ForkCandidates[1], ForkCandidates[2])
    /\ DeadEnd(ForkCandidates[1])
    /\ DeadEnd(ForkCandidates[2])
    /\ currentId = ForkCandidates[2]

----------------------------------------------------------------------------
(* Properties of the point in the pipes *)

\* the tick finds no target: plan[idx] is undefined
PlanExhausted(p) == p.idx + 1 > Len(p.pipePlan)

\* C13 (step): a step taken by a point in pipe mode never leaves it in mode
\* "error"; when its plan is exhausted the step puts it in mode "arrived", and
\* a step that leaves it in pipe mode leaves it a target
C13_NoErrorInPipe ==
    [][ thePoint.mode = "pipe" =>
            /\ thePoint'.mode \in {"pipe", "arrived"}
            /\ PlanExhausted(thePoint) => thePoint'.mode = "arrived"
            /\ thePoint'.mode = "pipe" => ~PlanExhausted(thePoint') ]_vars

\* C13 (progress): a point in pipe mode arrives
C13_PipeLeadsToArrived == (thePoint.mode = "pipe") ~> (thePoint.mode = "arrived")

\* C13: Dead end: a point in pipe mode whose plan is exhausted (a plan of fewer
\* than 2 points included) goes to mode "arrived" on a tick, never to "error"
C13_DeadEndArrives == C13_NoErrorInPipe /\ C13_PipeLeadsToArrived

\* a point has arrived on a plan of fewer than 2 points, returned for an entry
\* that leads nowhere
C13_ArrivedOnShortPlan ==
    /\ thePoint.mode = "arrived"
    /\ thePoint.inPipe
    /\ thePoint.hasPlan
    /\ Len(thePoint.pipePlan) < 2

\* C14: Velocity clamp: the speed by which a tick advances a moving entity in
\* the pipes, before the 1x/10x multiplier, is within [0.2, 3.0] m/s for every
\* attribute combination of its segment
C14_SpeedWithinClamp ==
    /\ (variant = "dironly" /\ caller = "none" /\ thePoint.mode = "pipe")
           => TickSpeed(thePoint) \in PIPE_SPEED_MIN_MPS..PIPE_SPEED_MAX_MPS
    /\ (variant = "flush" /\ anim.v # 0)
           => anim.v \in (10 * PIPE_SPEED_MIN_MPS)..(10 * PIPE_SPEED_MAX_MPS)

\* the segment of the network on which the leg from here to target lies (both
\* in units of the point's position); NULL when there is none
SegmentOfLeg(g, here, target) ==
    LET on(i, q) == /\ q[1] >= UnitsPerMetre * Min(g[i].coords[1][1], g[i].coords[2][1])
                    /\ q[1] <= UnitsPerMetre * Max(g[i].coords[1][1], g[i].coords[2][1])
                    /\ q[2] = UnitsPerMetre * g[i].coords[1][2]
        segs == {i \in DOMAIN g : on(i, here) /\ on(i, target)}
    IN IF segs = {} THEN NULL ELSE CHOOSE i \in segs : TRUE

\* the point is about to move along a leg of positive length of its plan
OnLeg(p) ==
    /\ p.mode = "pipe"
    /\ ~PlanExhausted(p)
    /\ p.pos # ToUnits(p.pipePlan[p.idx + 1])

\* C15: Velocity re-read: the speed a tick applies to a point in pipe mode is
\* the clamped velocity of the segment the point is on, also after the point
\* has crossed from one segment of its plan into the next
C15_SpeedOfCurrentSegment ==
    [][ (variant = "dironly" /\ caller = "none" /\ OnLeg(thePoint) /\ thePoint' # thePoint)
            => thePoint'.speedMps =
                   clamp(NumOr(VHalf(byObjectId,
                                     SegmentOfLeg(byObjectId, thePoint.pos,
                                                  ToUnits(thePoint.pipePlan[thePoint.idx + 1]))),
                               0),
                         PIPE_SPEED_MIN_MPS, PIPE_SPEED_MAX_MPS) ]_vars

\* C16: Graph unavailable: a call of the tracer with an entry id that is null
\* or not in the graph returns the empty plan; no caller has a call of the
\* tracer running while pipeData.byObjectId is null; and enterPipeMode without
\* a graph leaves the point in mode "error", no step of a traversal taken
C16_NoGraphNoTraversal ==
    /\ (pc = "done" /\ (startObjectId = NULL \/ ~Has(byObjectId, startObjectId)))
           => plan = <<>>
    /\ caller # "none" => pipeReady
    /\ (~pipeReady /\ ~thePoint.entering)
           => /\ thePoint.mode = "error"
              /\ pc = "idle"
              /\ walk = <<>>
              /\ visited = {}

\* enterPipeMode has run without a graph and has reported it
C16_NotReadyReported ==
    /\ ~pipeReady
    /\ thePoint.mode = "error"
    /\ thePoint.error = "Pipe network not ready"
    /\ thePoint.pipeObjectId \in Ids
    /\ pc = "idle"

\* C17: Traversals do not interfere: no step of a traversal changes the graph,
\* and of two traversals from different entries whose steps interleave in any
\* order, each returns the plan it returns when it runs alone
C17_GraphUnchanged == [][byObjectId' = byObjectId]_vars

C17_PlansAsAlone ==
    /\ pc = "done" =>
          plan = Alone(byObjectId, NewLocals(startObjectId, startPoint), maxHops).plan
    /\ second.pc = "done" =>
          second.plan = Alone(byObjectId, NewLocals(second.startObjectId, second.startPoint),
                             maxHops).plan

C18_PlanCellsDistinct ==
    (variant \in {"dironly", "dfs"} /\ pc = "done") =>
        \A i, j \in 1..Len(plan) : i # j => gridKey(plan[i]) # gridKey(plan[j])

\* load has ended: its last pass is over, or it was abandoned
LoadEnded == variant = "load" /\ pc \in {"loaded", "failed"}

\* feature ft of the file has its coordinate array with 2 coordinates or more
\* and an OBJECTID
WellFormed(ft) == ft.hasCoordinates /\ Len(ft.coords) >= 2 /\ ft.objectId # NULL

\* C19: Structural violations do not abort the build: with a feature of fewer
\* than 2 coordinates, without coordinate array or without OBJECTID in the
\* file, load ends with ready = true, that feature is not in byObjectId, and
\* every well-formed feature is registered with its node keys and successors
C19_DefectsDoNotAbort ==
    LoadEnded =>
        /\ pipeReady
        /\ \A i \in 1..Len(features) :
              IF WellFormed(features[i])
              THEN /\ Has(byObjectId, features[i].objectId)
                   /\ byObjectId[features[i].objectId].downNodeKey # NULL
                   /\ byObjectId[features[i].objectId].next = features[i].next
              ELSE \A id \in DOMAIN byObjectId : byObjectId[id].coords # features[i].coords

\* the successor that the build's resolution returns for the segment in hand
Resolved ==
    IF variant = "dironly"
    THEN chooseNextPipeDirOnly(NextObjectIds(byObjectId, currentId), byObjectId,
                               orderedCoordsForPipe(byObjectId, currentId), prevId,
                               visited \cup {currentId})
    ELSE chooseNextPipeWithLookahead(NextObjectIds(byObjectId, currentId), byObjectId,
                                     currentId, prevId, visited \cup {currentId})

\* C20: Previous-segment exclusion: successor resolution never returns the
\* immediately-previous segment when another candidate exists, and returns it
\* when it is the only candidate
C20_PreviousOnlyAsLastResort ==
    ( /\ variant \in {"dironly", "lookahead"}
      /\ pc = "walking"
      /\ Has(byObjectId, currentId)
      /\ Len(orderedCoordsForPipe(byObjectId, currentId)) >= 2
      /\ prevId # NULL )
    => /\ (\E id \in Range(NextObjectIds(byObjectId, currentId)) : id # prevId)
              => Resolved # prevId
       /\ Range(NextObjectIds(byObjectId, currentId)) = {prevId}
              => Resolved = prevId

----------------------------------------------------------------------------
(* Properties of the successor resolution at a junction *)

\* a hop has been completed and no later hop has begun: `visited` is the set
\* that the hop handed to the successor resolution
Hopped ==
    /\ variant \in {"dironly", "lookahead"}
    /\ Len(walk) >= 1
    /\ visited = Range(walk)

\* currentId and prevId of that hop
LastCur == walk[Len(walk)]
LastPrev == IF Len(walk) >= 2 THEN walk[Len(walk) - 1] ELSE NULL

\* _nextObjectIds of that hop's segment
LastNextIds == NextObjectIds(byObjectId, LastCur)

\* what the build's successor resolution returned at that hop
Returned ==
    IF variant = "dironly"
    THEN chooseNextPipeDirOnly(LastNextIds, byObjectId,
                               orderedCoordsForPipe(byObjectId, LastCur), LastPrev, visited)
    ELSE chooseNextPipeWithLookahead(LastNextIds, byObjectId, LastCur, LastPrev, visited)

\* the candidates that remain after excluding the previous segment
Remaining == {id \in Range(LastNextIds) : id # LastPrev}

\* C21: Visited exclusion: the successor resolution returns an already-visited
\* segment only when every candidate that remains after excluding the previous
\* segment is visited; when an unvisited one exists, the result is unvisited
C21_VisitedOnlyWhenAllVisited ==
    Hopped =>
        /\ (Returned # NULL /\ Returned \in visited) => Remaining \subseteq visited
        /\ Remaining \ visited # {} => (Returned # NULL /\ Returned \notin visited)
        /\ variant = "dironly" => currentId = Returned

\* a visited and an unvisited candidate remained, and an unvisited one was taken
C21_UnvisitedPreferred ==
    /\ Hopped
    /\ Remaining \cap visited # {}
    /\ Remaining \ visited # {}
    /\ Returned \notin visited

\* C22: DIR-only traversal follows only graph links: every consecutive pair
\* (s, t) of segments of the walk of the DIR-only tracer has t in the
\* _nextObjectIds of s, and so has the segment the tracer turns to next
C22_WalkFollowsLinks ==
    variant = "dironly" =>
        /\ \A i \in 1..(Len(walk) - 1) :
               walk[i + 1] \in Range(NextObjectIds(byObjectId, walk[i]))
        /\ (Len(walk) >= 1 /\ currentId # NULL /\ pc = "walking")
               => currentId \in Range(NextObjectIds(byObjectId, walk[Len(walk)]))

\* the DIR-only tracer has returned after a walk over all segments
C22_WalkedAllSegments ==
    /\ variant = "dironly"
    /\ pc = "done"
    /\ Len(walk) = NumSegs

\* the candidates among which the DIR-only resolution chose
LastEligible == EligibleDirOnly(LastNextIds, LastPrev, visited)

\* candidate id has no feature in the graph, or fewer than 2 coordinates
Unusable(id) == Len(orderedCoordsForPipe(byObjectId, id)) < 2

\* C23: chooseNextPipeDirOnly returns null if and only if no candidate other
\* than the previous segment exists, and otherwise a member of nextIds, also
\* with candidates that are missing from the graph or have fewer than 2
\* coordinates; chooseNextPipeByBearing returns the same
C23_CandidateOrNull ==
    (Hopped /\ variant = "dironly") =>
        /\ currentId = Returned
        /\ currentId = NULL <=> Remaining = {}
        /\ currentId # NULL => currentId \in Range(LastNextIds)
        /\ chooseNextPipeByBearing(LastNextIds, byObjectId,
                                   orderedCoordsForPipe(byObjectId, LastCur),
                                   LastPrev, visited) = currentId

\* the choice was made among two or more candidates, none of them usable
C23_ChosenAmongUnusable ==
    /\ Hopped
    /\ variant = "dironly"
    /\ Len(LastEligible) >= 2
    /\ \A id \in Range(LastEligible) : Unusable(id)
    /\ currentId \in Range(LastNextIds)

----------------------------------------------------------------------------
(* Properties of the DFS search *)

\* the registered ids that at most k _nextObjectIds links lead to from S
RECURSIVE WithinLinks(_, _, _)
WithinLinks(g, S, k) ==
    IF k <= 0 THEN S \cap DOMAIN g
    ELSE WithinLinks(g, S \cup UNION {Range(NextObjectIds(g, s)) : s \in S \cap DOMAIN g},
                     k - 1)

\* some target lies on a simple path of fewer than maxSteps segments from the entry
TargetInReach ==
    WithinLinks(byObjectId, {startObjectId}, maxHops - 2) \cap targetPipeIds # {}

\* C24: DFS completeness: with a target reachable from the entry segment along
\* a simple path of fewer than maxSteps segments, the search ends with found
\* = true and a path that ends at a target; an entry segment that is a target
\* yields the path of that one segment
C24_ReachableTargetFound ==
    (variant = "dfs" /\ pc = "done" /\ maxHops >= 2 /\ TargetInReach) =>
        /\ found
        /\ Len(path) >= 1
        /\ path[Len(path)] \in targetPipeIds
        /\ startObjectId \in targetPipeIds => path = <<startObjectId>>

\* C25: DFS stack invariant: at every iteration frames and path have the same
\* length and list the same ids in the same order, inPath is the set of the
\* ids of path, path holds no id twice, and every id of path after the first
\* is in the _nextObjectIds of the id before it
C25_StackMatchesPath ==
    variant = "dfs" =>
        /\ Len(frames) = Len(path)
        /\ \A i \in 1..Len(path) : frames[i].id = path[i]
        /\ inPath = Range(path)
        /\ \A i, k \in 1..Len(path) : i # k => path[i] # path[k]
        /\ \A i \in 1..(Len(path) - 1) :
               path[i + 1] \in Range(NextObjectIds(byObjectId, path[i]))

\* the search stands on a path over all segments that it took after a backtrack
C25_DeepAfterBacktrack ==
    /\ variant = "dfs"
    /\ pc = "searching"
    /\ Len(path) = NumSegs
    /\ hop > NumSegs

\* the angular difference between the terminal bearing of the hop's segment
\* and the initial bearing of candidate id, both in flow order
BearingChange(id) ==
    LET cur == orderedCoordsForPipe(byObjectId, LastCur)
        ord == orderedCoordsForPipe(byObjectId, id)
    IN angleDiffDeg(bearingDeg(cur[Len(cur) - 1], cur[Len(cur)]), bearingDeg(ord[1], ord[2]))

\* the eligible candidates that have a bearing, as positions of the list
WithBearing == {i \in 1..Len(LastEligible) : ~Unusable(LastEligible[i])}

\* C26: Bearing continuity: with two or more eligible candidates,
\* chooseNextPipeDirOnly returns a candidate whose initial bearing differs
\* least (by an angle of 0 to 180 degrees) from the terminal bearing of the
\* current segment, and of candidates with that difference the first listed
C26_LeastBearingChange ==
    (Hopped /\ variant = "dironly" /\ Len(LastEligible) >= 2 /\ WithBearing # {}) =>
        \E k \in WithBearing :
            /\ currentId = LastEligible[k]
            /\ BearingChange(currentId) \in 0..180
            /\ \A i \in WithBearing :
                   /\ BearingChange(currentId) <= BearingChange(LastEligible[i])
                   /\ i < k => BearingChange(currentId) < BearingChange(LastEligible[i])

\* the candidate taken had the least difference together with a candidate of a
\* lower id that is listed after it
C26_TieWonByFirstListed ==
    /\ Hopped
    /\ variant = "dironly"
    /\ Len(LastEligible) >= 2
    /\ \E k, i \in WithBearing :
           /\ currentId = LastEligible[k]
           /\ i > k
           /\ LastEligible[i] < currentId
           /\ BearingChange(LastEligible[i]) = BearingChange(currentId)

----------------------------------------------------------------------------
(* Properties of chooseNextPipeLowestDownIL *)

\* the candidates of the call that has returned, after its same-name restriction
FallbackCandidates ==
    Range(SameNameCandidates(NextObjectIds(byObjectId, prevId), byObjectId, prevId))

\* the lowest id of a set of ids
LowestId(S) == CHOOSE x \in S : \A y \in S : x <= y

\* the candidates of S with the greatest PIPE_LENGTH
Longest(S) ==
    {c \in S : /\ PipeLength(byObjectId, c) # NULL
               /\ \A d \in S : PipeLength(byObjectId, d) # NULL
                      => PipeLength(byObjectId, d) <= PipeLength(byObjectId, c)}

\* C27: Deterministic fallback: when no candidate has a DOWNSTREAM_IL,
\* chooseNextPipeLowestDownIL returns the candidate with the greatest
\* PIPE_LENGTH, and the candidate with the lowest id when none has a
\* PIPE_LENGTH or the greatest length is shared, whatever the order of the list
C27_LongestThenLowestId ==
    ( /\ variant = "fallback"
      /\ pc = "done"
      /\ FallbackCandidates # {}
      /\ \A c \in FallbackCandidates : DownIL(byObjectId, c) = NULL )
    => currentId = IF Longest(FallbackCandidates) # {}
                   THEN LowestId(Longest(FallbackCandidates))
                   ELSE LowestId(FallbackCandidates)

----------------------------------------------------------------------------
(* Properties of the direction decision *)

\* pass 1 has dealt with feature i of the file
Processed(i) ==
    /\ variant = "load"
    /\ \/ pc \in {"cluster", "keys", "pass2", "loaded"}
       \/ pc \in {"pass1", "failed"} /\ i < cursor

\* the raw DIR values that read as upstream-to-downstream and the other way
ReadsDownstream == {"u_to_d"}
ReadsUpstream == {"d_to_u", "D2U"}

\* C28: Direction decision priority: a parseable DIR decides _dir with source
\* DIR; otherwise two numeric invert levels decide it with source IL (u_to_d
\* if UPSTREAM_IL >= DOWNSTREAM_IL, d_to_u if not); otherwise _dir is u_to_d
\* with source default. An unparseable DIR does not keep a segment with an
\* OBJECTID and two coordinates from being registered
C28_DirectionPriority ==
    \A i \in 1..Len(features) :
        Processed(i) =>
            LET ft == features[i]
            IN /\ ft.DIR \in ReadsDownstream => ft.dir = "u_to_d" /\ ft.dirSource = "DIR"
               /\ ft.DIR \in ReadsUpstream => ft.dir = "d_to_u" /\ ft.dirSource = "DIR"
               /\ ft.DIR \notin ReadsDownstream \cup ReadsUpstream =>
                      IF ft.upIL # NULL /\ ft.downIL # NULL
                      THEN /\ ft.dirSource = "IL"
                           /\ ft.dir = "u_to_d" <=> ft.upIL >= ft.downIL
                           /\ ft.dir = "d_to_u" <=> ft.upIL < ft.downIL
                      ELSE ft.dir = "u_to_d" /\ ft.dirSource = "default"
               /\ (pc # "failed" /\ ft.objectId # NULL /\ Len(ft.coords) >= 2) =>
                      /\ Has(byObjectId, ft.objectId)
                      /\ byObjectId[ft.objectId].dir = ft.dir
                      /\ byObjectId[ft.objectId].dirSource = ft.dirSource

\* the build is over with a segment registered under an unreadable DIR and a
\* segment whose explicit DIR went against its invert levels
C28_ExplicitAgainstLevels ==
    /\ variant = "load"
    /\ pc = "loaded"
    /\ \E id \in DOMAIN byObjectId :
           byObjectId[id].DIR = "north" /\ byObjectId[id].dirSource = "default"
    /\ \E id \in DOMAIN byObjectId :
           /\ byObjectId[id].DIR = "d_to_u"
           /\ byObjectId[id].upIL > byObjectId[id].downIL
           /\ byObjectId[id].dir = "d_to_u"

----------------------------------------------------------------------------
(* Properties of the gap-bridging fallback *)

\* pass 2 has dealt with feature i of the file
Bridged(i) ==
    /\ variant = "bridge"
    /\ pc = "loaded" \/ (pc = "pass2" /\ i < cursor)

\* the node-matched candidate list of the feature ft
NodeMatched(ft) ==
    IF ft.downNodeKey \in DOMAIN nodeIndex
    THEN SelectSeq(nodeIndex[ft.downNodeKey].outObjectIds, LAMBDA id : id # ft.objectId)
    ELSE <<>>

\* the square of the distance in metres from the flow end of ft to the flow
\* start of the segment id
GapTo(ft, id) == Dist2(ft.flowEndLL, byObjectId[id].flowStartLL)

WithinBridgeMax(d2) == d2 <= NODE_GAP_BRIDGE_MAX_M * NODE_GAP_BRIDGE_MAX_M

\* the other registered segments that start within the bridge radius of the
\* flow end of ft, restricted to the same-named ones when there is one
Bridgeable(ft) ==
    LET near == {id \in DOMAIN byObjectId \ {ft.objectId} : WithinBridgeMax(GapTo(ft, id))}
        same == {id \in near : ft.nameNorm # "" /\ byObjectId[id].nameNorm = ft.nameNorm}
    IN IF same # {} THEN same ELSE near

\* C29: Gap-bridging fallback: a segment is flagged _next_via_gap_bridge only
\* if its node-matched list is empty and it has a flow end; its list then holds
\* at most 3 distinct ids, none its own, all starting within
\* NODE_GAP_BRIDGE_MAX_M of its flow end, in order of increasing distance,
\* same-named only when a same-named segment is that near; and a segment
\* without node match gets the nearest three of all segments starting within
\* the radius, and the flag
C29_BridgedListComplete ==
    \A i \in 1..Len(features) :
        Bridged(i) =>
            LET ft == features[i]
                nxt == ft.next
            IN /\ ft.viaGapBridge =>
                      /\ NodeMatched(ft) = <<>>
                      /\ ft.flowEndLL # Unset
                      /\ Len(nxt) <= 3
                      /\ \A a, b \in 1..Len(nxt) : a # b => nxt[a] # nxt[b]
                      /\ \A a \in 1..Len(nxt) : nxt[a] \in Bridgeable(ft)
                      /\ \A a, b \in 1..Len(nxt) : a < b => GapTo(ft, nxt[a]) <= GapTo(ft, nxt[b])
               /\ (NodeMatched(ft) = <<>> /\ ft.flowEndLL # Unset /\ Bridgeable(ft) # {}) =>
                      /\ ft.viaGapBridge
                      /\ Len(nxt) = Min(3, Cardinality(Bridgeable(ft)))
                      /\ \A id \in Bridgeable(ft) :
                             \/ id \in Range(nxt)
                             \/ \A a \in 1..Len(nxt) : GapTo(ft, nxt[a]) <= GapTo(ft, id)

----------------------------------------------------------------------------
(* Properties of the emission of the entry segment *)

\* the coordinates of the entry segment as the running build orders them
EntryOrd ==
    IF variant = "dfs" THEN flattenFeatureCoords(byObjectId, startObjectId)
    ELSE orderedCoordsForPipe(byObjectId, startObjectId)

\* the entry segment exists with two coordinates, an entry point is given and
\* the coordinates of the entry segment have been emitted
Entered ==
    /\ variant \in {"dironly", "dfs"}
    /\ startPoint # NoPoint
    /\ Has(byObjectId, startObjectId)
    /\ Len(flattenFeatureCoords(byObjectId, startObjectId)) >= 2
    /\ Len(walk) >= 1
    /\ walk[1] = startObjectId

\* p is s with some of its elements left out
RECURSIVE SubseqOf(_, _)
SubseqOf(p, s) ==
    IF Len(p) = 0 THEN TRUE
    ELSE IF Len(s) = 0 THEN FALSE
    ELSE IF Head(p) = Head(s) THEN SubseqOf(Tail(p), Tail(s))
    ELSE SubseqOf(p, Tail(s))

\* the coordinates of the segments walked after the entry segment, from the
\* n-th on
RECURSIVE LaterCoords(_)
LaterCoords(n) ==
    IF n > Len(walk) THEN <<>>
    ELSE (IF variant = "dfs" THEN flattenFeatureCoords(byObjectId, walk[n])
          ELSE orderedCoordsForPipe(byObjectId, walk[n]))
         \o LaterCoords(n + 1)

----------------------------------------------------------------------------
(* Properties of pickCandidateOrder *)

\* the frames whose candidates have been ordered
OrderedFrames == {n \in 1..Len(frames) : frames[n].expanded}

\* the candidate shares the name of the segment in hand
SharesNameOf(cur, id) ==
    /\ SewerName(byObjectId, cur) # ""
    /\ SewerName(byObjectId, id) = SewerName(byObjectId, cur)

\* the cross-section of a segment: width by height, a pipe without
\* PIPE_HEIGHT being circular with PIPE_WIDTH as its diameter
CrossSection(id) ==
    IF PipeHeight(byObjectId, id) = NULL
    THEN Max(0, PipeWidth(byObjectId, id)) * Max(0, PipeWidth(byObjectId, id))
    ELSE Max(0, PipeWidth(byObjectId, id)) * Max(0, PipeHeight(byObjectId, id))

\* a goes before b: same name first, then the larger cross-section, then the
\* lower id
GoesBefore(cur, a, b) ==
    IF SharesNameOf(cur, a) # SharesNameOf(cur, b) THEN SharesNameOf(cur, a)
    ELSE IF CrossSection(a) # CrossSection(b) THEN CrossSection(a) > CrossSection(b)
    ELSE a < b

\* C31: Candidate ordering for the DFS: the ordered list of a frame is a
\* permutation of the frame's candidates in which same-named candidates come
\* first, the larger cross-section precedes the smaller within each group and
\* the lower id precedes the higher on remaining ties; it is the list the
\* candidates in ascending order give
C31_OrderedByNameSizeId ==
    variant = "dfs" =>
        \A n \in OrderedFrames :
            LET f == frames[n]
                cands == getCandidates(byObjectId, f.id, f.prevId)
            IN /\ Len(f.ordered) = Len(cands)
               /\ \A id \in Range(cands) \cup Range(f.ordered) :
                     Cardinality({k \in 1..Len(cands) : cands[k] = id})
                         = Cardinality({k \in 1..Len(f.ordered) : f.ordered[k] = id})
               /\ \A a, b \in 1..Len(f.ordered) :
                     (a < b /\ f.ordered[a] # f.ordered[b])
                         => GoesBefore(f.id, f.ordered[a], f.ordered[b])
               /\ f.ordered = pickCandidateOrder(SortAsc(Range(cands)), byObjectId, f.id)

----------------------------------------------------------------------------
(* Properties of the bucket-based node index *)

\* the endpoints recorded so far, each with its node id
NodedEndpoints ==
    {[ll |-> pipes[k].latlngs[1], node |-> pipes[k].upNode] : k \in 1..Len(pipes)}
    \cup {[ll |-> pipes[k].latlngs[Len(pipes[k].latlngs)], node |-> pipes[k].dnNode] :
              k \in 1..Len(pipes)}

\* C32: Endpoint clustering in the bucket-based node index: any two segment
\* endpoints whose projected distance is at most NODE_TOL_METERS have the
\* same node id
C32_NearEndpointsShareNode ==
    variant = "records" =>
        \A a, b \in NodedEndpoints :
            WithinTolProjected(a.ll, b.ll, NODE_TOL_METERS) => a.node = b.node

----------------------------------------------------------------------------
(* Properties of computeHalfFullVelocityMps *)

\* the function has been applied to the attribute bag of the model
VelocityResolved == variant = "velocity" /\ pc = "done"

IsNumber(raw) == raw.kind = "number"

\* the slope is absent: no parseable GRADE, and not two parseable invert
\* levels with a positive parseable PIPE_LENGTH
SlopeAbsent(p) ==
    /\ ~IsNumber(p.GRADE)
    /\ ~(IsNumber(p.UPSTREAM_IL) /\ IsNumber(p.DOWNSTREAM_IL)
         /\ IsNumber(p.PIPE_LENGTH) /\ p.PIPE_LENGTH.val > 0)

\* the cross-section is unusable: no positive width, or a negative height
\* (a pipe whose height is absent or zero is circular)
DimensionsUnusable(p) ==
    \/ ~IsNumber(p.PIPE_WIDTH)
    \/ p.PIPE_WIDTH.val <= 0
    \/ IsNumber(p.PIPE_HEIGHT) /\ p.PIPE_HEIGHT.val < 0

\* C33: Safe numeric defaults: computeHalfFullVelocityMps always returns a
\* velocity v >= 0; v is 0 whenever the slope is absent or zero, or the
\* cross-section has no positive dimensions; a parseable GRADE gives the slope
\* (its magnitude) whatever the invert levels say
C33_VelocityDefaults ==
    VelocityResolved =>
        LET p == features[1]
        IN /\ p.vHalf >= 0
           /\ p.slopeS >= 0
           /\ p.manningN > 0
           /\ SlopeAbsent(p) => p.vHalf = 0 /\ p.slopeS = 0
           /\ p.slopeS = 0 => p.vHalf = 0
           /\ DimensionsUnusable(p) => p.vHalf = 0
           /\ IsNumber(p.GRADE) => p.slopeS = Abs(p.GRADE.val)

\* a velocity was computed from a GRADE that differs from the slope of the
\* invert levels
C33_GradeOverLevels ==
    /\ VelocityResolved
    /\ features[1].vHalf > 0
    /\ IsNumber(features[1].GRADE)
    /\ features[1].slopeS = 5000
    /\ features[1].UPSTREAM_IL = Num(510)
    /\ features[1].DOWNSTREAM_IL = Num(500)
    /\ features[1].PIPE_LENGTH = Num(10)

----------------------------------------------------------------------------
(* Properties of the modes of the point *)

Terminal(p) == p.mode \in {"arrived", "error"}

\* the step is a tick of the interval timer
Tick == StreetTick \/ PipeTick \/ IdleTick

\* C34: Terminal modes are absorbing under ticks: a tick on a point whose mode
\* is "arrived" or "error" leaves every field of the point as it was, and a
\* point in such a mode is never in another mode later
C34_TerminalAbsorbing ==
    [][ Terminal(thePoint) =>
            /\ Tick => thePoint' = thePoint
            /\ thePoint'.mode = thePoint.mode ]_vars

\* a point that has moved along its plan has arrived and the timer ticks on
C34_ArrivedStillTicked ==
    /\ thePoint.mode = "arrived"
    /\ thePoint.idx >= 2
    /\ thePoint.pos = ToUnits(thePoint.pipePlan[Len(thePoint.pipePlan)])
    /\ ENABLED IdleTick

\* the street index has reached the end of the route
StreetRouteWalked(p) == p.routed /\ p.streetIdx >= Len(p.route)

\* C35: Mode ordering: a point gets into mode "pipe" only by the return of
\* enterPipeMode, from street mode, with plan index 1; the timer of
\* enterPipeMode is set only by a tick that puts the point on the last point of
\* its street route, and enterPipeMode runs only on that timer; a point in
\* pipe mode has walked its street route, and its plan index does not decrease
\* while it stays in pipe mode
C35_ModeOrdering ==
    [][ /\ (thePoint.mode # "pipe" /\ thePoint'.mode = "pipe") =>
              /\ caller = "enterPipeMode"
              /\ thePoint.mode = "street"
              /\ thePoint'.idx = 1
        /\ (~thePoint.entering /\ thePoint'.entering) =>
              /\ thePoint.mode = "street"
              /\ ~StreetRouteWalked(thePoint)
              /\ StreetRouteWalked(thePoint')
              /\ thePoint'.pos = thePoint.route[Len(thePoint.route)]
        /\ (caller # "enterPipeMode" /\ caller' = "enterPipeMode") => thePoint.entering
        /\ thePoint'.mode = "pipe" => StreetRouteWalked(thePoint')
        /\ (thePoint.mode = "pipe" /\ thePoint'.mode = "pipe") =>
              /\ thePoint'.idx >= thePoint.idx
              /\ thePoint'.idx >= 1 ]_vars

\* a point that was routed from where it was added is in pipe mode and has
\* passed a point of its plan
C35_InPipeAfterStreet ==
    /\ thePoint.mode = "pipe"
    /\ thePoint.idx >= 2
    /\ StreetRouteWalked(thePoint)
    /\ thePoint.contactPoint # NoPoint
    /\ thePoint.route[1] # ToUnits(thePoint.contactPoint)

\* C36: Arrival liveness: with the timers running, a point in pipe mode with a
\* plan gets to mode "arrived", on the last point of its plan, and from some
\* time on it is not in pipe mode
C36_ArrivalLiveness ==
    /\ (thePoint.mode = "pipe" /\ thePoint.hasPlan) ~>
           (thePoint.mode = "arrived" /\ PlanExhausted(thePoint))
    /\ <>[](thePoint.mode # "pipe")

\* a point is in pipe mode with more than one leg of its plan ahead
C36_InPipeFarFromEnd ==
    /\ thePoint.mode = "pipe"
    /\ thePoint.hasPlan
    /\ thePoint.idx + 2 <= Len(thePoint.pipePlan)
    /\ ~speed10x

====
